---------------------------- MODULE Spec2Model ----------------------------
(***************************************************************************)
(* A model of webircproxy: the per-connection bridge between an IRCv3      *)
(* WebSocket client and a line-oriented ircd, with the UTF-8 transcoder    *)
(* that the upstream-to-client forwarder runs on every text frame.         *)
(*                                                                         *)
(* Bytes are integers 0..255 and byte strings are sequences of bytes.      *)
(* A Go index of -1 ("not found") is the index 0 here, because sequences   *)
(* are 1-based.                                                            *)
(***************************************************************************)
EXTENDS Integers, Sequences, FiniteSets, TLC

VARIABLES
    config,       \* Server.config: the snapshot the atomic pointer refers to
    phase,        \* how far the one connection of the model has come
    sessCfg,      \* WSListener.handle: its local `config`, passed on to
                  \* RunReverseProxyConn
    dials,        \* the upstreams RunReverseProxyConn has dialed, by their
                  \* index in config.Upstreams
    messageType,  \* ReverseProxyConn.messageType
    readLimit,    \* the read limit set on the websocket connection
    rMaxLineLen,  \* ReverseProxyConn.maxLineLen
    rMaxBuffer,   \* ReverseProxyConn.maxBuffer
    wsBufferLen,  \* len(ReverseProxyConn.wsBuffer)
    wsBuffer,     \* the bytes of ReverseProxyConn.wsBuffer
    wsIn,         \* the sizes of the messages NextReader has returned
    uIn,          \* the lines ReadLine has returned
    pc,           \* position of the goroutines proxyToUpstream (pc.to) and
                  \* proxyFromUpstream (pc.from)
    toLine,       \* proxyToUpstream: the message readWSMessage returned
    uLog,         \* what has been written to the upstream connection
    wsMessage,    \* the size of the message readWSMessage was last called on
    toErr,        \* proxyToUpstream: the `err` readWSMessage returned
    line,         \* proxyFromUpstream: the line ReadLine returned
    wLog,         \* the frames written to the websocket connection
    usedCfg,      \* transcodeToUTF8: its local `config` (NoConfig before the load)
    rest,         \* decodeViaReplacementRune: what is left of `line`
    out,          \* decodeViaReplacementRune: the bytes.Buffer `out`
    bodyLength,   \* decodeViaReplacementRune: the local `bodyLength`
    result,       \* transcodeToUTF8: the returned slice
    alias,        \* TRUE iff `result` is the caller's own buffer
    once,         \* ReverseProxyConn.closeOnce
    webCloses,    \* how many times webConn.Close() has been called
    uCloses,      \* how many times uConn.Close() has been called
    request,      \* the HTTP request of the connection and the listener's
                  \* configuration the connection was accepted under
    wConn,        \* the utils.WrappedConn under the connection
    listeners,    \* Server.listeners: the listener registered at an address
    created,      \* how many times setupListeners has made new listeners
    rehashMutex,  \* Server.rehashMutex: the rehash holding it, or Free
    rehash        \* the rehash goroutines: where each is, and its `config`

sessVars ==
    <<phase, sessCfg, dials, messageType, readLimit, rMaxLineLen, rMaxBuffer>>
toVars == <<wsBufferLen, wsBuffer, wsIn, toLine, uLog, wsMessage, toErr>>
fromVars == <<line, uIn, wLog>>
xcodeVars == <<usedCfg, rest, out, bodyLength, result, alias>>
closeVars == <<once, webCloses, uCloses>>
reqVars == <<request, wConn>>
srvVars == <<listeners, created, rehashMutex, rehash>>
vars ==
    <<config, srvVars, reqVars, sessVars, toVars, fromVars, xcodeVars, closeVars, pc>>

---------------------------------------------------------------------------
(* Bounds of the model.                                                    *)

\* longest line of the exhaustive family of short lines
MaxLen == 4
\* length of the run of one repeated byte in the family of long lines
LongRun == 255
\* longest exhaustive part in front of the run of a long line
MaxLongHead == 1
\* messages the client-to-upstream forwarder writes in the model
MaxMessages == 2
\* frames the upstream-to-client forwarder writes in the model
MaxLines == 1
\* how many times SIGHUP starts a rehash
MaxRehash == 2
\* lines the upstream-to-client forwarder reads where the model follows
\* the data of one session
MaxBridgeLines == 2
\* how far the second max-line-len of the model lies above the default
ExtraLineLen == 88

---------------------------------------------------------------------------
(* Bytes.                                                                  *)

AT == 64
SP == 32
COLON == 58
SEMICOLON == 59
EQUALS == 61
PLUS == 43
STAR == 42
QUESTION == 63
ZERO == 48
RuneError == 65533
RuneSelf == 128
DefaultMaxLineLen == 512
MaxlenClientTagData == 4094
initialBufferSize == 1024

\* the largest value of Go's int where it has 32 bits (it has 32 or 64,
\* with the platform the program is built for)
MaxInt == 2147483647

\* a + b in Go's int for a, b >= 0: past MaxInt the sum wraps around to
\* the negative numbers
AddInt(a, b) ==
    IF a <= MaxInt - b THEN a + b
    ELSE ((a - MaxInt) - 1) + ((b - MaxInt) - 1)

\* the UTF-8 encoding of U+FFFD, "\xef\xbf\xbd"
ReplacementBytes == <<239, 191, 189>>

\* bytes the lines of the model are made of: ' ', 'A', and the non-ASCII
\* bytes C3 (a 2-byte lead), EF (a 3-byte lead), BF and BD (continuations);
\* C3 BF is U+00FF, EF BF BF is U+FFFF and EF BF BD is U+FFFD itself
BodyBytes == {32, 65, 195, 239, 191, 189}

Min(a, b) == IF a < b THEN a ELSE b
Max(a, b) == IF a < b THEN b ELSE a

\* s[from..], the Go slice s[from-1:]
Drop(s, n) == SubSeq(s, n + 1, Len(s))
\* s[..n], the Go slice s[:n]
Take(s, n) == SubSeq(s, 1, n)

\* bytes.IndexByte / strings.IndexByte, 0 when b does not occur
IndexByte(s, b) ==
    IF \E i \in 1..Len(s) : s[i] = b
    THEN CHOOSE i \in 1..Len(s) : s[i] = b /\ \A j \in 1..(i - 1) : s[j] # b
    ELSE 0

\* F(v) and G(v, w), with v and w evaluated once where they are bound
With(v, F(_)) == CHOOSE r \in {F(x) : x \in {v}} : TRUE
With2(v, w, G(_, _)) == CHOOSE r \in {G(x, y) : x \in {v}, y \in {w}} : TRUE

\* n copies of the byte b
Rep(b, n) == [i \in 1..n |-> b]

\* every sequence over S of length at most n
SeqsUpTo(S, n) == UNION {[1..k -> S] : k \in 0..n}

---------------------------------------------------------------------------
(* unicode/utf8, as the Go standard library defines it.                    *)

IsCont(b) == b >= 128 /\ b <= 191

\* the size of the well-formed UTF-8 sequence that starts at s[i], 0 if none
SeqLenAt(s, i) ==
    IF i < 1 \/ i > Len(s) THEN 0
    ELSE LET b1 == s[i]
             n  == Len(s) - i + 1
             c(k) == s[i + k]
         IN  IF b1 < 128 THEN 1
             ELSE IF b1 >= 194 /\ b1 <= 223
                  THEN IF n >= 2 /\ IsCont(c(1)) THEN 2 ELSE 0
             ELSE IF b1 >= 224 /\ b1 <= 239
                  THEN IF n >= 3
                          /\ c(1) >= (IF b1 = 224 THEN 160 ELSE 128)
                          /\ c(1) <= (IF b1 = 237 THEN 159 ELSE 191)
                          /\ IsCont(c(2))
                       THEN 3 ELSE 0
             ELSE IF b1 >= 240 /\ b1 <= 244
                  THEN IF n >= 4
                          /\ c(1) >= (IF b1 = 240 THEN 144 ELSE 128)
                          /\ c(1) <= (IF b1 = 244 THEN 143 ELSE 191)
                          /\ IsCont(c(2)) /\ IsCont(c(3))
                       THEN 4 ELSE 0
             ELSE 0

\* the code point of the well-formed sequence of size n that starts at s[i]
RuneAt(s, i, n) ==
    CASE n = 1 -> s[i]
      [] n = 2 -> (s[i] - 192) * 64 + (s[i + 1] - 128)
      [] n = 3 -> (s[i] - 224) * 4096 + (s[i + 1] - 128) * 64 + (s[i + 2] - 128)
      [] n = 4 -> (s[i] - 240) * 262144 + (s[i + 1] - 128) * 4096
                    + (s[i + 2] - 128) * 64 + (s[i + 3] - 128)

\* utf8.DecodeRune: (RuneError, 0) on empty input, (RuneError, 1) on an
\* invalid sequence, else the code point and its size
DecodeRune(s) ==
    IF Len(s) = 0 THEN [r |-> RuneError, l |-> 0]
    ELSE LET n == SeqLenAt(s, 1)
         IN  IF n = 0 THEN [r |-> RuneError, l |-> 1]
             ELSE [r |-> RuneAt(s, 1, n), l |-> n]

\* utf8.RuneStart
RuneStart(b) == ~IsCont(b)

\* utf8.DecodeLastRune
DecodeLastRune(s) ==
    LET end == Len(s)
    IN  IF end = 0 THEN [r |-> RuneError, l |-> 0]
        ELSE IF s[end] < RuneSelf THEN [r |-> s[end], l |-> 1]
        ELSE LET lim    == Max(end - 4, 0) + 1
                 cands  == {j \in lim..(end - 1) : RuneStart(s[j])}
                 start  == IF cands = {} THEN Max(lim - 1, 1)
                           ELSE CHOOSE j \in cands : \A k \in cands : k <= j
                 d      == DecodeRune(SubSeq(s, start, end))
             IN  IF start + d.l - 1 # end THEN [r |-> RuneError, l |-> 1] ELSE d

\* utf8.Valid / utf8.ValidString: every byte lies in a well-formed sequence.
\* A sequence can only start at a byte that is no continuation byte and only
\* continuation bytes follow its first byte, so two well-formed sequences
\* never overlap and the test is local.
ValidUTF8(s) ==
    \A i \in 1..Len(s) :
        \E j \in Max(1, i - 3)..i : SeqLenAt(s, j) > i - j

\* utf8.EncodeRune / (*Builder).WriteRune
EncodeRune(r) ==
    IF r < 128 THEN <<r>>
    ELSE IF r < 2048 THEN <<192 + (r \div 64), 128 + (r % 64)>>
    ELSE IF r < 65536
         THEN <<224 + (r \div 4096), 128 + ((r \div 64) % 64), 128 + (r % 64)>>
    ELSE <<240 + (r \div 262144), 128 + ((r \div 4096) % 64),
           128 + ((r \div 64) % 64), 128 + (r % 64)>>

---------------------------------------------------------------------------
(* Strings as Go ranges over them.                                         *)

\* the concatenation of a sequence of byte strings (halving keeps the
\* evaluation shallow on long lines)
RECURSIVE Flatten(_)
Flatten(ss) ==
    IF Len(ss) = 0 THEN <<>>
    ELSE IF Len(ss) = 1 THEN ss[1]
    ELSE LET m == Len(ss) \div 2
         IN  Flatten(SubSeq(ss, 1, m)) \o Flatten(SubSeq(ss, m + 1, Len(ss)))

\* s[i] is a byte after the first of a well-formed sequence
Covered(s, i) == \E j \in Max(1, i - 3)..(i - 1) : SeqLenAt(s, j) > i - j

\* the indexes at which `for i, r := range s` yields a rune
RangeStarts(s) == SelectSeq([i \in 1..Len(s) |-> i], LAMBDA i : ~Covered(s, i))

\* the runes `for _, r := range s` yields: the code point of each well-formed
\* sequence, and RuneError for each byte that is in none
RangeRunes(s) ==
    LET st == RangeStarts(s)
    IN  [k \in 1..Len(st) |->
            LET n == SeqLenAt(s, st[k])
            IN  IF n = 0 THEN RuneError ELSE RuneAt(s, st[k], n)]

\* unicode.ToUpper on the code points lines of the model can hold: ASCII and
\* Latin-1 letters have an upper case, U+00FF maps to U+0178
UnicodeToUpper(r) ==
    IF r >= 97 /\ r <= 122 THEN r - 32
    ELSE IF r >= 224 /\ r <= 254 /\ r # 247 THEN r - 32
    ELSE IF r = 255 THEN 376
    ELSE r

\* strings.ToUpper: strings.Map(unicode.ToUpper, s), which writes RuneError
\* for every byte of s that is in no well-formed sequence
ToUpper(s) ==
    LET rs == RangeRunes(s)
    IN  Flatten([k \in 1..Len(rs) |-> EncodeRune(UnicodeToUpper(rs[k]))])

---------------------------------------------------------------------------
(* github.com/ergochat/irc-go/ircmsg, the parser and serializer that       *)
(* decodeViaParamTranscoding calls.  A message is its tags (name and value *)
(* pairs), Prefix, Command and Params.                                     *)

EmptyMessage == [tags |-> <<>>, Prefix |-> <<>>, Command |-> <<>>, Params |-> <<>>]

\* strings.TrimSuffix for a one-byte suffix
TrimSuffixByte(s, b) ==
    IF Len(s) > 0 /\ s[Len(s)] = b THEN Take(s, Len(s) - 1) ELSE s

\* trimInitialSpaces
trimInitialSpaces(s) ==
    IF \E i \in 1..Len(s) : s[i] # SP
    THEN Drop(s, (CHOOSE i \in 1..Len(s) :
                    s[i] # SP /\ \A j \in 1..(i - 1) : s[j] = SP) - 1)
    ELSE <<>>

\* validateTagName: an optional '+', then one or more of [A-Za-z0-9-/.]
validateTagName(name) ==
    LET n == IF Len(name) > 0 /\ name[1] = PLUS THEN Drop(name, 1) ELSE name
    IN  /\ Len(name) # 0
        /\ Len(n) # 0
        /\ \A i \in 1..Len(n) :
              \/ n[i] >= 97 /\ n[i] <= 122
              \/ n[i] >= 65 /\ n[i] <= 90
              \/ n[i] >= 48 /\ n[i] <= 57
              \/ n[i] \in {45, 47, 46}

\* validateTagValue
validateTagValue(value) == ValidUTF8(value)

\* the number of consecutive backslashes right before v[i]
BackslashesBefore(v, i) ==
    LET stops == {j \in 1..(i - 1) : v[j] # 92}
    IN  IF stops = {} THEN i - 1
        ELSE i - 1 - (CHOOSE j \in stops : \A k \in stops : k <= j)

\* UnescapeTagValue: "\:" is ';', "\s" is ' ', "\r" and "\n" are CR and LF,
\* a backslash before any other byte is dropped
UnescapeTagValue(v) ==
    Flatten([i \in 1..Len(v) |->
        IF BackslashesBefore(v, i) % 2 = 1
        THEN CASE v[i] = 58 -> <<59>>
               [] v[i] = 115 -> <<32>>
               [] v[i] = 114 -> <<13>>
               [] v[i] = 110 -> <<10>>
               [] OTHER -> <<v[i]>>
        ELSE IF v[i] = 92 THEN <<>> ELSE <<v[i]>>])

\* EscapeTagValue
EscapeTagValue(v) ==
    Flatten([i \in 1..Len(v) |->
        CASE v[i] = 92 -> <<92, 92>>
          [] v[i] = 59 -> <<92, 58>>
          [] v[i] = 32 -> <<92, 115>>
          [] v[i] = 13 -> <<92, 114>>
          [] v[i] = 10 -> <<92, 110>>
          [] OTHER -> <<v[i]>>])

\* SetTag: a tag set twice keeps its last value
SetTag(tags, name, value) ==
    IF \E i \in 1..Len(tags) : tags[i].name = name
    THEN [i \in 1..Len(tags) |->
            IF tags[i].name = name THEN [name |-> name, value |-> value]
            ELSE tags[i]]
    ELSE Append(tags, [name |-> name, value |-> value])

\* parseTags: the pairs between ';'; a pair whose name is not valid is
\* skipped, a value that is not UTF-8 is ErrorInvalidTagContent
RECURSIVE parseTags(_, _)
parseTags(tags, acc) ==
    IF Len(tags) = 0 THEN [err |-> "", tags |-> acc]
    ELSE LET tagEnd  == IndexByte(tags, SEMICOLON)
             tagPair == IF tagEnd = 0 THEN tags ELSE Take(tags, tagEnd - 1)
             next    == IF tagEnd = 0 THEN <<>> ELSE Drop(tags, tagEnd)
             eq      == IndexByte(tagPair, EQUALS)
             name    == IF eq = 0 THEN tagPair ELSE Take(tagPair, eq - 1)
             value   == IF eq = 0 THEN <<>> ELSE Drop(tagPair, eq)
         IN  IF validateTagName(name)
             THEN IF ~validateTagValue(value)
                  THEN [err |-> "ErrorInvalidTagContent", tags |-> acc]
                  ELSE parseTags(next, SetTag(acc, name, UnescapeTagValue(value)))
             ELSE parseTags(next, acc)

\* the loop of parseLine over the parameters
RECURSIVE parseParams(_, _)
parseParams(l0, acc) ==
    With2(trimInitialSpaces(l0), acc, LAMBDA l, params :
        IF Len(l) = 0 THEN params
        ELSE IF l[1] = COLON THEN Append(params, Drop(l, 1))
        ELSE IF IndexByte(l, SP) = 0 THEN Append(params, l)
        ELSE parseParams(Drop(l, IndexByte(l, SP)),
                         Append(params, Take(l, IndexByte(l, SP) - 1))))

\* what parseLine returns with an error
ParseError(e) == [err |-> e, msg |-> EmptyMessage]

\* parseLine from the command on
parseLineCommand(tags, prefix, l3) ==
    LET cmdEnd  == IndexByte(l3, SP)
        finish(command, l4) ==
            IF Len(command) = 0 THEN ParseError("ErrorLineIsEmpty")
            ELSE [err |-> "",
                  msg |-> [tags    |-> tags,
                           Prefix  |-> prefix,
                           Command |-> command,
                           Params  |-> parseParams(l4, <<>>)]]
    IN  With2(ToUpper(IF cmdEnd = 0 THEN l3 ELSE Take(l3, cmdEnd - 1)),
              IF cmdEnd = 0 THEN <<>> ELSE Drop(l3, cmdEnd),
              finish)

\* parseLine from the prefix on; pt is what parseTags returned
parseLinePrefix(pt, l2) ==
    IF pt.err # "" THEN ParseError(pt.err)
    ELSE IF Len(l2) > 0 /\ l2[1] = COLON
         THEN LET pfxEnd == IndexByte(l2, SP)
              IN  IF pfxEnd = 0 THEN ParseError("ErrorLineIsEmpty")
                  ELSE With(trimInitialSpaces(Drop(l2, pfxEnd)), LAMBDA l3 :
                           parseLineCommand(pt.tags, SubSeq(l2, 2, pfxEnd - 1), l3))
         ELSE parseLineCommand(pt.tags, <<>>, l2)

\* parseLine on a line without its line ending
parseLine(l1) ==
    IF \E i \in 1..Len(l1) : l1[i] \in {0, 10, 13}
    THEN ParseError("ErrorLineContainsBadChar")
    ELSE IF Len(l1) < 1 THEN ParseError("ErrorLineIsEmpty")
    ELSE IF l1[1] = AT
         THEN LET tagEnd == IndexByte(l1, SP)
              IN  IF tagEnd = 0 THEN ParseError("ErrorLineIsEmpty")
                  ELSE With2(parseTags(SubSeq(l1, 2, tagEnd - 1), <<>>),
                             trimInitialSpaces(Drop(l1, tagEnd)),
                             parseLinePrefix)
         ELSE With2([err |-> "", tags |-> <<>>], trimInitialSpaces(l1),
                    parseLinePrefix)

\* ircmsg.ParseLine: parseLine with no tag limit and no truncation
ParseLine(line0) ==
    With(TrimSuffixByte(TrimSuffixByte(line0, 10), 13), parseLine)

\* the tags segment (*Message).line writes: '@', the tags between ';', ' '
SerializeTags(tags) ==
    IF Len(tags) = 0 THEN <<>>
    ELSE <<AT>>
         \o Flatten([i \in 1..Len(tags) |->
                (IF i > 1 THEN <<SEMICOLON>> ELSE <<>>)
                \o tags[i].name
                \o (IF Len(tags[i].value) # 0
                    THEN <<EQUALS>> \o EscapeTagValue(tags[i].value)
                    ELSE <<>>)])
         \o <<SP>>

\* a parameter (*Message).line has to write as a trailing
NeedsTrailing(param) ==
    Len(param) < 1 \/ IndexByte(param, SP) # 0 \/ param[1] = COLON

\* after buf.Truncate: while the buffer ends in a cut code point, drop one
\* more byte, at most utf8.UTFMax - 1 times
RECURSIVE TruncateUTF8Safe(_, _)
TruncateUTF8Safe(buf, tries) ==
    IF tries = 0 THEN buf
    ELSE LET d == DecodeLastRune(buf)
         IN  IF d.r = RuneError /\ d.l <= 1 /\ Len(buf) > 0
             THEN TruncateUTF8Safe(Take(buf, Len(buf) - 1), tries - 1)
             ELSE buf

\* the body (*Message).line writes after the tags: prefix, command, params
SerializeBody(msg) ==
    (IF Len(msg.Prefix) > 0 THEN <<COLON>> \o msg.Prefix \o <<SP>> ELSE <<>>)
        \o msg.Command
        \o Flatten([i \in 1..Len(msg.Params) |->
              <<SP>>
              \o (IF NeedsTrailing(msg.Params[i]) THEN <<COLON>> ELSE <<>>)
              \o msg.Params[i]])

\* (*Message).line once tags and body are written: the body is cut to
\* truncateLen - 2 bytes with ErrorBodyTooLong, and CRLF ends the line
LineOf(tagBytes, body, truncateLen) ==
    LET tooLong == truncateLen # 0 /\ truncateLen - 2 < Len(body)
        ended(all) ==
            IF \E i \in 1..Len(all) : all[i] \in {0, 10, 13}
            THEN [err |-> "ErrorLineContainsBadChar", bytes |-> <<>>]
            ELSE [err   |-> IF tooLong THEN "ErrorBodyTooLong" ELSE "",
                  bytes |-> all \o <<13, 10>>]
    IN  With(IF tooLong
             THEN TruncateUTF8Safe(tagBytes \o Take(body, truncateLen - 2), 3)
             ELSE tagBytes \o body,
             ended)

\* (*Message).LineBytesStrict(false, truncateLen): the serialized line with
\* its CRLF.  The limits on tag data (4094 bytes) are beyond every line of
\* the model.
LineBytesStrict(msg, truncateLen) ==
    IF Len(msg.Command) = 0 THEN [err |-> "ErrorCommandMissing", bytes |-> <<>>]
    ELSE IF \E i \in 1..Len(msg.tags) : ~validateTagValue(msg.tags[i].value)
         THEN [err |-> "ErrorInvalidTagContent", bytes |-> <<>>]
    ELSE IF \E i \in 1..(Len(msg.Params) - 1) : NeedsTrailing(msg.Params[i])
         THEN [err |-> "ErrorBadParam", bytes |-> <<>>]
    ELSE With2(SerializeTags(msg.tags), SerializeBody(msg),
               LAMBDA tagBytes, body : LineOf(tagBytes, body, truncateLen))

---------------------------------------------------------------------------
(* Configuration snapshots (only the fields the bridge reads).             *)

NoConfig == [none |-> TRUE]

\* the encodings of the model; see Decode below
Latin1 == "ISO-8859-1"
StrictA == "strict-a"
StrictB == "strict-b"
ControlEnc == "control"

\* IP addresses, as net.IP.String() prints them: a peer that is a trusted
\* proxy, a peer that is not, a client behind a proxy, and the IPv6 loopback
NilIP == "nil"
TrustedPeer == "10.0.0.1"
UntrustedPeer == "198.51.100.7"
ClientIP == "203.0.113.5"
LoopbackV6 == "::1"
IPs == {TrustedPeer, UntrustedPeer, ClientIP, LoopbackV6}

\* the bytes of the strings above
IPText(ip) ==
    CASE ip = TrustedPeer -> <<49, 48, 46, 48, 46, 48, 46, 49>>
      [] ip = UntrustedPeer -> <<49, 57, 56, 46, 53, 49, 46, 49, 48, 48, 46, 55>>
      [] ip = ClientIP -> <<50, 48, 51, 46, 48, 46, 49, 49, 51, 46, 53>>
      [] ip = LoopbackV6 -> <<58, 58, 49>>

\* utils.ListenerConfig: whether the listener terminates TLS
\* (TLSConfig != nil), is a tor listener, requires a PROXY header
ListenerConfig(tls, tor, proxy) == [TLS |-> tls, Tor |-> tor, RequireProxy |-> proxy]
PlainListener == ListenerConfig(FALSE, FALSE, FALSE)
TLSListener == ListenerConfig(TRUE, FALSE, FALSE)
TorListener == ListenerConfig(FALSE, TRUE, FALSE)

\* the addresses a configuration file may list
Addr1 == ":8067"
Addr2 == ":8097"
DefaultListeners == [a \in {Addr1} |-> PlainListener]

\* "P" and "wp": the WEBIRC password and the gateway name of the snapshots
DefaultPassword == <<80>>
DefaultGatewayName == <<119, 112>>

\* Config, after postprocessConfig: MaxLineLen is at least DefaultMaxLineLen
\* and chardet excludes a list of encodings; webirc is Webirc.Enabled of the
\* one upstream
MakeConfig(chardet, encodings, maxLineLen, webirc) ==
    [EnableChardet |-> chardet,
     encodings     |-> encodings,
     MaxLineLen    |-> maxLineLen,
     maxReadQBytes |-> MaxlenClientTagData + maxLineLen + 1024,
     Upstreams     |-> <<[Enabled |-> webirc, Password |-> DefaultPassword]>>,
     GatewayName          |-> DefaultGatewayName,
     LookupHostnames      |-> FALSE,
     proxyAllowedFromNets |-> {TrustedPeer},
     allowedOriginRegexps |-> <<>>,
     trueListeners        |-> DefaultListeners]

ReplacementConfig == MakeConfig(FALSE, <<>>, DefaultMaxLineLen, TRUE)
ChardetConfig == MakeConfig(TRUE, <<>>, DefaultMaxLineLen, FALSE)
EncodingLists == {<<Latin1>>, <<StrictA, Latin1>>, <<StrictA, StrictB>>}
TranscoderConfigs ==
    {ReplacementConfig, ChardetConfig}
        \cup {MakeConfig(FALSE, e, DefaultMaxLineLen, FALSE) : e \in EncodingLists}

---------------------------------------------------------------------------
(* irc/unicode.go                                                          *)

\* "WARN * INVALID_MESSAGE :Upstream server sent a syntactically invalid message"
invalidMessageWarning ==
    <<87, 65, 82, 78, 32, 42, 32, 73, 78, 86, 65, 76, 73, 68, 95, 77,
      69, 83, 83, 65, 71, 69, 32, 58, 85, 112, 115, 116, 114, 101, 97, 109,
      32, 115, 101, 114, 118, 101, 114, 32, 115, 101, 110, 116, 32, 97, 32, 115,
      121, 110, 116, 97, 99, 116, 105, 99, 97, 108, 108, 121, 32, 105, 110, 118,
      97, 108, 105, 100, 32, 109, 101, 115, 115, 97, 103, 101>>

\* a fast path that returns a copy of the line: C7 fails with it
TranscodeIdentityCopy ==
    /\ pc.from = "transcode"
    /\ ValidUTF8(line)
    /\ result' = line
    /\ alias' = FALSE
    /\ pc' = [pc EXCEPT !.from = "write"]
    /\ UNCHANGED <<usedCfg, rest, out, bodyLength>>
    /\ UNCHANGED <<config, srvVars, reqVars, sessVars, toVars, fromVars, closeVars>>

\* transcodeToUTF8, the fast path: a valid line is returned as it is, before
\* server.Config() is loaded
TranscodeIdentity ==
    /\ pc.from = "transcode"
    /\ ValidUTF8(line)
    /\ result' = line
    /\ alias' = TRUE
    /\ pc' = [pc EXCEPT !.from = "write"]
    /\ UNCHANGED <<usedCfg, rest, out, bodyLength>>
    /\ UNCHANGED <<config, srvVars, reqVars, sessVars, toVars, fromVars, closeVars>>

\* which strategy transcodeToUTF8 picks from the snapshot it loaded
Strategy(c) ==
    IF c.EnableChardet THEN "chardet"
    ELSE IF Len(c.encodings) # 0 THEN "encodings"
    ELSE "replacement"

\* a beginning that hands the whole line to the loop, tags included: C9
\* fails with it
ReplacementBeginNoTags ==
    /\ pc.from = "transcode"
    /\ ~ValidUTF8(line)
    /\ Strategy(config) = "replacement"
    /\ usedCfg' = config
    /\ bodyLength' = 0
    /\ out' = <<>>
    /\ rest' = line
    /\ pc' = [pc EXCEPT !.from = "loop"]
    /\ UNCHANGED <<result, alias>>
    /\ UNCHANGED <<config, srvVars, reqVars, sessVars, toVars, fromVars, closeVars>>

\* decodeViaReplacementRune, up to the loop: the tags segment is copied as it
\* is; a line of tags without a command yields the warning
ReplacementBegin ==
    /\ pc.from = "transcode"
    /\ ~ValidUTF8(line)
    /\ Strategy(config) = "replacement"
    /\ usedCfg' = config
    /\ bodyLength' = 0
    /\ IF line[1] = AT
       THEN LET spaceIdx == IndexByte(line, SP)
            IN  IF spaceIdx # 0
                THEN /\ out' = Take(line, spaceIdx)
                     /\ rest' = Drop(line, spaceIdx)
                     /\ pc' = [pc EXCEPT !.from = "loop"]
                     /\ UNCHANGED <<result, alias>>
                ELSE /\ result' = invalidMessageWarning
                     /\ alias' = FALSE
                     /\ pc' = [pc EXCEPT !.from = "write"]
                     /\ UNCHANGED <<out, rest>>
       ELSE /\ out' = <<>>
            /\ rest' = line
            /\ pc' = [pc EXCEPT !.from = "loop"]
            /\ UNCHANGED <<result, alias>>
    /\ UNCHANGED <<config, srvVars, reqVars, sessVars, toVars, fromVars, closeVars>>

\* an iteration that drops a byte it cannot decode instead of replacing it:
\* C8 fails with it
ReplacementIterationDrop(l, bl, maxLineLen) ==
    IF SeqLenAt(l, 1) = 0
    THEN [stop |-> FALSE, emit |-> <<>>, consume |-> 1]
    ELSE [stop |-> FALSE, emit |-> Take(l, SeqLenAt(l, 1)), consume |-> SeqLenAt(l, 1)]

\* one iteration of the loop of decodeViaReplacementRune on what is left of
\* the line: the bytes it writes, how many input bytes it consumes, and
\* whether it breaks out of the loop instead
ReplacementIteration(l, bl, maxLineLen) ==
    LET d == DecodeRune(l)
    IN  IF d.r # RuneError
        THEN IF bl + d.l <= maxLineLen - 2
             THEN [stop |-> FALSE, emit |-> Take(l, d.l), consume |-> d.l]
             ELSE [stop |-> TRUE, emit |-> <<>>, consume |-> 0]
        ELSE IF bl + 3 <= maxLineLen - 2
             THEN [stop |-> FALSE, emit |-> ReplacementBytes, consume |-> 1]
             ELSE [stop |-> TRUE, emit |-> <<>>, consume |-> 0]

\* bodyLength after an iteration: the loop never assigns it
ReplacementBodyLength(bl, it) == bl

ReplacementStep ==
    /\ pc.from = "loop"
    /\ Len(rest) # 0
    /\ LET it == ReplacementIteration(rest, bodyLength, rMaxLineLen)
       IN  IF it.stop
           THEN /\ result' = out
                /\ alias' = FALSE
                /\ pc' = [pc EXCEPT !.from = "write"]
                /\ UNCHANGED <<out, rest, bodyLength>>
           ELSE /\ out' = out \o it.emit
                /\ rest' = Drop(rest, it.consume)
                /\ bodyLength' = ReplacementBodyLength(bodyLength, it)
                /\ UNCHANGED <<result, alias, pc>>
    /\ UNCHANGED usedCfg
    /\ UNCHANGED <<config, srvVars, reqVars, sessVars, toVars, fromVars, closeVars>>

\* the loop ends with the line used up: return out.Bytes()
ReplacementReturn ==
    /\ pc.from = "loop"
    /\ Len(rest) = 0
    /\ result' = out
    /\ alias' = FALSE
    /\ pc' = [pc EXCEPT !.from = "write"]
    /\ UNCHANGED <<usedCfg, rest, out, bodyLength>>
    /\ UNCHANGED <<config, srvVars, reqVars, sessVars, toVars, fromVars, closeVars>>

\* a reinterpretation that takes every byte for the code point of the
\* same value: C35 fails with it
decodeAsUtf8Bytewise(param) ==
    Flatten([k \in 1..Len(param) |-> EncodeRune(param[k])])

\* decodeAsUtf8: every rune the range over param yields, written with
\* WriteRune
decodeAsUtf8(param) ==
    LET rs == RangeRunes(param)
    IN  Flatten([k \in 1..Len(rs) |-> EncodeRune(rs[k])])

\* encoding.NewDecoder().String(param) for the encodings of the model.
\* ISO-8859-1 maps every byte to the code point of the same value and never
\* fails.  The two strict encodings stand for decoders that can report an
\* error: strict-a fails on a parameter holding the byte EF, strict-b on one
\* holding EF or BF; each maps the other bytes above 7F into a block of its
\* own, so that the output tells which decoder produced it.  The control
\* encoding stands for decoders of the kind of IBM037, in which a byte
\* that is no control character in ASCII (here 25, '%') decodes to the
\* line feed.
Decode(enc, param) ==
    LET has(b) == \E i \in 1..Len(param) : param[i] = b
        block(lead) ==
            Flatten([i \in 1..Len(param) |->
                IF param[i] < RuneSelf THEN <<param[i]>>
                ELSE <<lead, 128 + (param[i] % 64)>>])
    IN  CASE enc = Latin1 ->
               [err |-> FALSE,
                s   |-> Flatten([i \in 1..Len(param) |-> EncodeRune(param[i])])]
          [] enc = StrictA ->
               IF has(239) THEN [err |-> TRUE, s |-> <<>>]
               ELSE [err |-> FALSE, s |-> block(208)]
          [] enc = StrictB ->
               IF has(239) \/ has(191) THEN [err |-> TRUE, s |-> <<>>]
               ELSE [err |-> FALSE, s |-> block(209)]
          [] enc = ControlEnc ->
               [err |-> FALSE,
                s   |-> Flatten([i \in 1..Len(param) |->
                            IF param[i] = 37 THEN <<10>>
                            ELSE IF param[i] < RuneSelf THEN <<param[i]>>
                            ELSE <<210, 128 + (param[i] % 64)>>])]

\* a list decoder that does not look at the decoder's error: C10 fails with it
decodeParamViaEncodingListUnchecked(param, encodings) ==
    IF Len(encodings) = 0 THEN decodeAsUtf8(param)
    ELSE Decode(Head(encodings), param).s

\* decodeParamViaEncodingList
RECURSIVE decodeParamViaEncodingList(_, _)
decodeParamViaEncodingList(param, encodings) ==
    IF Len(encodings) = 0 THEN decodeAsUtf8(param)
    ELSE LET d == Decode(Head(encodings), param)
         IN  IF ~d.err THEN d.s
             ELSE decodeParamViaEncodingList(param, Tail(encodings))

\* what detector.DetectBest and ianaindex.IANA.Encoding can answer for a
\* parameter: a detection error, a charset the index does not know, or one
\* of the encodings
DetectOutcomes == {"error", "unknown-charset", Latin1, StrictA}

\* decodeParamViaChardet, with the detector's answer for this parameter
decodeParamViaChardet(detected, param) ==
    IF ValidUTF8(param) THEN param
    ELSE IF detected \in {"error", "unknown-charset"} THEN decodeAsUtf8(param)
    ELSE LET d == Decode(detected, param)
         IN  IF d.err THEN decodeAsUtf8(param) ELSE d.s

\* bytes.TrimSuffix(out, crlf)
TrimCRLF(s) ==
    IF Len(s) >= 2 /\ s[Len(s) - 1] = 13 /\ s[Len(s)] = 10
    THEN Take(s, Len(s) - 2) ELSE s

\* the two closures transcodeToUTF8 passes as paramTranscoder: the one over
\* the detector (here the detector's answer for each parameter it is asked
\* about), the one over the list of encodings
ChardetClosure(detect) == [chardet |-> TRUE, detector |-> detect]
EncodingListClosure(encodings) == [chardet |-> FALSE, encodings |-> encodings]

\* a call of paramTranscoder
paramTranscoder(closure, param) ==
    IF closure.chardet
    THEN decodeParamViaChardet(
             IF param \in DOMAIN closure.detector
             THEN closure.detector[param] ELSE "error",
             param)
    ELSE decodeParamViaEncodingList(param, closure.encodings)

\* decodeViaParamTranscoding from the reassembly on
reassemble(o) ==
    IF o.err # "" /\ o.err # "ErrorBodyTooLong" THEN invalidMessageWarning
    ELSE TrimCRLF(o.bytes)

\* decodeViaParamTranscoding on the parsed message: the prefix and every
\* parameter are transcoded, the command must be UTF-8
transcodeMessage(msg, maxLineLen, closure) ==
    IF ~ValidUTF8(msg.Command) THEN invalidMessageWarning
    ELSE With([msg EXCEPT
                 !.Prefix = IF ~ValidUTF8(msg.Prefix)
                            THEN decodeAsUtf8(msg.Prefix) ELSE msg.Prefix,
                 !.Params = [i \in 1..Len(msg.Params) |->
                                paramTranscoder(closure, msg.Params[i])]],
              LAMBDA m : With(LineBytesStrict(m, maxLineLen), reassemble))

\* decodeViaParamTranscoding
decodeViaParamTranscoding(l, maxLineLen, closure) ==
    LET parsed(p) ==
            IF p.err # "" THEN invalidMessageWarning
            ELSE transcodeMessage(p.msg, maxLineLen, closure)
    IN  With(ParseLine(l), parsed)

\* the parameters of a line the detector is asked about
DetectedParams(l) ==
    LET parsed(p) ==
            IF p.err # "" THEN {}
            ELSE {p.msg.Params[i] : i \in {j \in 1..Len(p.msg.Params) :
                                              ~ValidUTF8(p.msg.Params[j])}}
    IN  With(ParseLine(l), parsed)

\* transcodeToUTF8 with config.Transcoding.EnableChardet
TranscodeChardet ==
    /\ pc.from = "transcode"
    /\ ~ValidUTF8(line)
    /\ Strategy(config) = "chardet"
    /\ usedCfg' = config
    /\ \E detect \in [DetectedParams(line) -> DetectOutcomes] :
          result' = decodeViaParamTranscoding(line, rMaxLineLen,
                                              ChardetClosure(detect))
    /\ alias' = FALSE
    /\ pc' = [pc EXCEPT !.from = "write"]
    /\ UNCHANGED <<rest, out, bodyLength>>
    /\ UNCHANGED <<config, srvVars, reqVars, sessVars, toVars, fromVars, closeVars>>

\* transcodeToUTF8 with a list of encodings
TranscodeEncodingList ==
    /\ pc.from = "transcode"
    /\ ~ValidUTF8(line)
    /\ Strategy(config) = "encodings"
    /\ usedCfg' = config
    /\ result' = decodeViaParamTranscoding(line, rMaxLineLen,
                                          EncodingListClosure(config.encodings))
    /\ alias' = FALSE
    /\ pc' = [pc EXCEPT !.from = "write"]
    /\ UNCHANGED <<rest, out, bodyLength>>
    /\ UNCHANGED <<config, srvVars, reqVars, sessVars, toVars, fromVars, closeVars>>

---------------------------------------------------------------------------
(* irc/listeners.go: the upgrade of one request.                           *)

\* strings.TrimSpace, on ASCII
IsSpace(c) == c \in {9, 10, 11, 12, 13, 32}
TrimSpace(s) ==
    LET keep == {i \in 1..Len(s) : ~IsSpace(s[i])}
    IN  IF keep = {} THEN <<>>
        ELSE SubSeq(s, CHOOSE i \in keep : \A j \in keep : i <= j,
                       CHOOSE i \in keep : \A j \in keep : j <= i)

\* (*regexp.Regexp).MatchString of what utils.CompileGlob(glob, false)
\* compiles: '^', then ".*" for '*', "." for '?' and the character itself
\* for any other, then '$'
RECURSIVE GlobMatch(_, _)
GlobMatch(glob, s) ==
    IF Len(glob) = 0 THEN Len(s) = 0
    ELSE IF glob[1] = STAR
         THEN \E k \in 0..Len(s) :
                 /\ \A i \in 1..k : s[i] # 10
                 /\ GlobMatch(Tail(glob), Drop(s, k))
    ELSE /\ Len(s) > 0
         /\ IF glob[1] = QUESTION THEN s[1] # 10 ELSE glob[1] = s[1]
         /\ GlobMatch(Tail(glob), Tail(s))

\* an origin check that lets every request through: C12 fails with it
CheckOriginAny(cfg, originHeader) == TRUE

\* WSListener.handle: the CheckOrigin function of the upgrader, on the
\* Origin header of the request
CheckOrigin(cfg, originHeader) ==
    IF Len(cfg.allowedOriginRegexps) = 0 THEN TRUE
    ELSE LET origin == TrimSpace(originHeader)
         IN  IF Len(origin) = 0 THEN FALSE
             ELSE \E i \in 1..Len(cfg.allowedOriginRegexps) :
                     GlobMatch(cfg.allowedOriginRegexps[i], origin)

\* net.ParseIP on one element of a header: the address, or nil
NotAnIP == "unknown"
ParseIP(token) == IF token \in IPs THEN token ELSE NilIP

\* utils.IPInNets
IPInNets(ip, nets) == ip \in nets

\* utils.HandleXForwardedFor, the walk from the right of the header:
\* the first address that is not trusted, or the last trusted one
RECURSIVE WalkForwardedFor(_, _, _, _)
WalkForwardedFor(forwardedIPs, i, whitelist, res) ==
    IF i < 1 THEN res
    ELSE LET proxiedIP == ParseIP(forwardedIPs[i])
         IN  IF proxiedIP = NilIP THEN res
             ELSE IF ~IPInNets(proxiedIP, whitelist) THEN proxiedIP
             ELSE WalkForwardedFor(forwardedIPs, i - 1, whitelist, proxiedIP)

\* utils.HandleXForwardedFor; the header is given as its elements between
\* commas, each trimmed
HandleXForwardedFor(remoteAddr, xForwardedFor, whitelist) ==
    LET remoteIP == ParseIP(remoteAddr)
    IN  IF remoteIP = NilIP \/ ~IPInNets(remoteIP, whitelist) THEN remoteIP
        ELSE WalkForwardedFor(xForwardedFor, Len(xForwardedFor), whitelist, remoteIP)

\* a resolution that believes X-Forwarded-For from any peer: C11 fails
\* with it
confirmProxyDataTrusting(conn, remoteAddr, xForwardedFor, xForwardedProto, cfg) ==
    [conn EXCEPT
        !.ProxiedIP = IF Len(xForwardedFor) # 0
                      THEN ParseIP(xForwardedFor[Len(xForwardedFor)])
                      ELSE conn.ProxiedIP]

\* a resolution that leaves a Secure flag that is already set alone: C21
\* fails with it
confirmProxyDataSticky(conn, remoteAddr, xForwardedFor, xForwardedProto, cfg) ==
    [conn EXCEPT
        !.Secure =
            \/ conn.Secure
            \/ conn.Config.TLS
            \/ conn.Config.Tor
            \/ /\ IPInNets(conn.RemoteAddr, cfg.proxyAllowedFromNets)
               /\ xForwardedProto = "https"]

\* a resolution that keeps the address of a PROXY header whoever the peer
\* is: C22 fails with it
confirmProxyDataKeeping(conn, remoteAddr, xForwardedFor, xForwardedProto, cfg) ==
    [conn EXCEPT
        !.Secure =
            IF conn.Config.TLS \/ conn.Config.Tor THEN TRUE
            ELSE /\ IPInNets(conn.RemoteAddr, cfg.proxyAllowedFromNets)
                 /\ xForwardedProto = "https"]

\* a resolution that believes X-Forwarded-Proto from any peer: C38 fails
\* with it
confirmProxyDataProto(conn, remoteAddr, xForwardedFor, xForwardedProto, cfg) ==
    LET peer == conn.RemoteAddr
        forwarded == HandleXForwardedFor(remoteAddr, xForwardedFor,
                                         cfg.proxyAllowedFromNets)
    IN  [conn EXCEPT
            !.ProxiedIP =
                IF conn.ProxiedIP # NilIP
                THEN IF ~IPInNets(peer, cfg.proxyAllowedFromNets)
                     THEN NilIP ELSE conn.ProxiedIP
                ELSE IF Len(xForwardedFor) # 0
                     THEN IF forwarded # NilIP /\ forwarded # peer
                          THEN forwarded ELSE conn.ProxiedIP
                ELSE conn.ProxiedIP,
            !.Secure =
                IF conn.Config.TLS \/ conn.Config.Tor THEN TRUE
                ELSE xForwardedProto = "https"]

\* confirmProxyData: the ProxiedIP and Secure of the wrapped connection
\* after the resolution
confirmProxyData(conn, remoteAddr, xForwardedFor, xForwardedProto, cfg) ==
    LET peer == conn.RemoteAddr
        forwarded == HandleXForwardedFor(remoteAddr, xForwardedFor,
                                         cfg.proxyAllowedFromNets)
    IN  [conn EXCEPT
            !.ProxiedIP =
                IF conn.ProxiedIP # NilIP
                THEN IF ~IPInNets(peer, cfg.proxyAllowedFromNets)
                     THEN NilIP ELSE conn.ProxiedIP
                ELSE IF Len(xForwardedFor) # 0
                     THEN IF forwarded # NilIP /\ forwarded # peer
                          THEN forwarded ELSE conn.ProxiedIP
                ELSE conn.ProxiedIP,
            !.Secure =
                IF conn.Config.TLS \/ conn.Config.Tor THEN TRUE
                ELSE /\ IPInNets(peer, cfg.proxyAllowedFromNets)
                     /\ xForwardedProto = "https"]

\* the connection as ReloadableListener.Accept returns it, for a request
AcceptedConn(req) ==
    [RemoteAddr |-> req.RemoteAddr,
     ProxiedIP  |-> req.ProxyHeaderIP,
     Secure     |-> req.Secure,
     Config     |-> req.Listener]

\* the subprotocols of the Upgrader
TextSubprotocol == "text.ircv3.net"
BinarySubprotocol == "binary.ircv3.net"

\* a request: the peer's address, the address a PROXY header gave (or nil),
\* the headers, of the connection it came on the Secure flag as accepted
\* and the configuration of the listener, and the subprotocol the upgrade
\* negotiates for it ("" when none)
MakeRequest(peer, proxyIP, xff, xfp, origin, secure, listener, subprotocol) ==
    [RemoteAddr      |-> peer,
     ProxyHeaderIP   |-> proxyIP,
     XForwardedFor   |-> xff,
     XForwardedProto |-> xfp,
     Origin          |-> origin,
     Secure          |-> secure,
     Listener        |-> listener,
     Subprotocol     |-> subprotocol]

---------------------------------------------------------------------------
(* irc/server.go: loading a configuration file and applying it.            *)
(* A file is what yaml.Unmarshal makes of it: a Config whose derived       *)
(* fields are still zero.  The fields the program derives by looking a     *)
(* name up (encodings, networks, globs, listeners) hold the names.         *)

Free == 0
RehashTasks == 1..MaxRehash

\* utils.SafeErrorParam
SafeErrorParam(param) ==
    IF Len(param) = 0 \/ param[1] = COLON \/ IndexByte(param, SP) # 0
    THEN <<STAR>> ELSE param

\* the encoding names ianaindex.IANA.Encoding knows
KnownEncodings == {Latin1, StrictA, StrictB, ControlEnc}
UnknownEncoding == "no-such-encoding"

LoadError(e) == [err |-> e, config |-> NoConfig]

\* postprocessEncodings
postprocessEncodings(c) ==
    IF c.EnableChardet /\ Len(c.encodings) # 0
    THEN LoadError("Cannot enable both chardet and a static list of encodings")
    ELSE IF \E i \in 1..Len(c.encodings) : c.encodings[i] \notin KnownEncodings
         THEN LoadError("Invalid encoding name")
    ELSE [err |-> "", config |-> c]

\* a loader that publishes the file as it was read: C13 fails with it
postprocessConfigSkipped(c) == [err |-> "", config |-> c]

\* postprocessConfig
postprocessConfig(c) ==
    IF c.GatewayName # SafeErrorParam(c.GatewayName)
    THEN LoadError("gateway name must be valid as a non-final IRC parameter")
    ELSE IF DOMAIN c.trueListeners = {}
         THEN LoadError("failed to prepare listeners")
    ELSE IF Len(c.Upstreams) = 0
         THEN LoadError("no upstreams configured")
    ELSE IF \E n \in c.proxyAllowedFromNets : ParseIP(n) = NilIP
         THEN LoadError("Could not parse proxy-allowed-from nets")
    ELSE LET maxLineLen == IF c.MaxLineLen < DefaultMaxLineLen
                           THEN DefaultMaxLineLen ELSE c.MaxLineLen
         IN  postprocessEncodings(
                 [c EXCEPT
                    !.MaxLineLen = maxLineLen,
                    !.maxReadQBytes =
                        AddInt(AddInt(MaxlenClientTagData, maxLineLen), 1024),
                    !.Upstreams =
                        [i \in 1..Len(c.Upstreams) |->
                            IF c.Upstreams[i].Enabled
                               /\ Len(c.Upstreams[i].Password) = 0
                            THEN [c.Upstreams[i] EXCEPT !.Password = <<STAR>>]
                            ELSE c.Upstreams[i]]])

\* LoadConfig: LoadRawConfig, then postprocessConfig
LoadConfig(file) ==
    IF file.malformed THEN LoadError("yaml") ELSE postprocessConfig(file.config)

\* a configuration file as LoadRawConfig reads it
ConfigFile(c) == [malformed |-> FALSE, config |-> c]
MalformedFile == [malformed |-> TRUE, config |-> NoConfig]

\* what yaml.Unmarshal makes of a file that sets the raw fields of c and
\* the given max-line-len and WEBIRC password
RawConfig(c, maxLineLen, password) ==
    [c EXCEPT !.MaxLineLen = maxLineLen,
              !.maxReadQBytes = 0,
              !.Upstreams = [i \in 1..Len(c.Upstreams) |->
                                [c.Upstreams[i] EXCEPT !.Password = password]]]

\* the files the operator may have put in place when a rehash reads the
\* configuration: three that load (with other listeners each), and four
\* that do not
ValidFiles ==
    {ConfigFile(RawConfig(ReplacementConfig, 0, <<>>)),
     ConfigFile(RawConfig(
        [MakeConfig(FALSE, <<Latin1>>, 0, FALSE) EXCEPT
            !.trueListeners = [a \in {Addr1, Addr2} |->
                                  IF a = Addr1 THEN TLSListener ELSE PlainListener]],
        DefaultMaxLineLen + ExtraLineLen, DefaultPassword)),
     ConfigFile(RawConfig(
        [ChardetConfig EXCEPT !.trueListeners = [a \in {Addr2} |-> PlainListener]],
        DefaultMaxLineLen, DefaultPassword))}
InvalidFiles ==
    {MalformedFile,
     ConfigFile([RawConfig(ReplacementConfig, 0, <<>>) EXCEPT !.GatewayName = <<>>]),
     ConfigFile([RawConfig(ChardetConfig, 0, <<>>) EXCEPT !.encodings = <<Latin1>>]),
     ConfigFile([RawConfig(ReplacementConfig, 0, <<>>) EXCEPT
                    !.encodings = <<UnknownEncoding>>])}
ConfigFiles == ValidFiles \cup InvalidFiles

\* a registered listener: the configuration it serves with, and which call
\* of setupListeners made it
Listener(conf, gen) == [conf |-> conf, gen |-> gen]

\* a Reload that refuses the configuration, so that setupListeners stops
\* the listener and makes another: C31 fails with it
ReloadRefusing(l, newConfig) == [err |-> "errCantReloadListener", listener |-> l]

\* WSListener.Reload: the listener takes the configuration, and the result
\* is nil
Reload(l, newConfig) == [err |-> "nil", listener |-> [l EXCEPT !.conf = newConfig]]

\* setupListeners, with the addresses net.Listen succeeds on: the
\* listeners registered afterwards and the error returned
setupListeners(current, made, cfg, bindable) ==
    LET configured == DOMAIN cfg.trueListeners
        reloaded(a) == Reload(current[a], cfg.trueListeners[a])
        kept == {a \in DOMAIN current \cap configured : reloaded(a).err = "nil"}
        new == (configured \ kept) \cap bindable
    IN  [listeners |-> [a \in kept \cup new |->
                           IF a \in kept THEN reloaded(a).listener
                           ELSE Listener(cfg.trueListeners[a], made + 1)],
         created   |-> IF new = {} THEN made ELSE made + 1,
         err       |-> IF (configured \ kept) \subseteq bindable THEN "nil"
                       ELSE "bind"]

\* NewServer: the listeners after the first applyConfig, which has to bind
\* every address
InitialListeners(cfg) ==
    setupListeners(<<>>, 0, cfg, DOMAIN cfg.trueListeners)

\* a rehash that goes on without waiting for the mutex: C32 fails with it
RehashLockOpen ==
    \E g \in RehashTasks :
        /\ rehash[g].pc = "idle"
        /\ rehashMutex' = g
        /\ rehash' = [rehash EXCEPT ![g].pc = "load"]
        /\ UNCHANGED <<listeners, created>>
        /\ UNCHANGED <<config, reqVars, sessVars, toVars, fromVars, xcodeVars, closeVars, pc>>

\* rehash: the mutex is taken
RehashLock ==
    \E g \in RehashTasks :
        /\ rehash[g].pc = "idle"
        /\ rehashMutex = Free
        /\ rehashMutex' = g
        /\ rehash' = [rehash EXCEPT ![g].pc = "load"]
        /\ UNCHANGED <<listeners, created>>
        /\ UNCHANGED <<config, reqVars, sessVars, toVars, fromVars, xcodeVars, closeVars, pc>>

\* a rehash that stops every listener when the file does not load: C14
\* fails with it
RehashLoadConfigStopping(file) ==
    \E g \in RehashTasks :
        /\ rehash[g].pc = "load"
        /\ LET loaded == LoadConfig(file)
           IN  IF loaded.err # ""
               THEN /\ rehash' = [rehash EXCEPT ![g].pc = "failed"]
                    /\ listeners' = <<>>
               ELSE /\ rehash' = [rehash EXCEPT ![g] = [pc |-> "apply",
                                                        config |-> loaded.config]]
                    /\ UNCHANGED listeners
        /\ UNCHANGED <<created, rehashMutex>>
        /\ UNCHANGED <<config, reqVars, sessVars, toVars, fromVars, xcodeVars, closeVars, pc>>

\* rehash: LoadConfig on the file as it is when it is read; on an error
\* rehash returns the error
RehashLoadConfig(file) ==
    \E g \in RehashTasks :
        /\ rehash[g].pc = "load"
        /\ LET loaded == LoadConfig(file)
           IN  rehash' = IF loaded.err # ""
                         THEN [rehash EXCEPT ![g].pc = "failed"]
                         ELSE [rehash EXCEPT ![g] = [pc |-> "apply",
                                                     config |-> loaded.config]]
        /\ UNCHANGED <<listeners, created, rehashMutex>>
        /\ UNCHANGED <<config, reqVars, sessVars, toVars, fromVars, xcodeVars, closeVars, pc>>

\* applyConfig: server.SetConfig(config)
RehashSetConfig ==
    \E g \in RehashTasks :
        /\ rehash[g].pc = "apply"
        /\ config' = rehash[g].config
        /\ rehash' = [rehash EXCEPT ![g].pc = "listeners"]
        /\ UNCHANGED <<listeners, created, rehashMutex>>
        /\ UNCHANGED <<reqVars, sessVars, toVars, fromVars, xcodeVars, closeVars, pc>>

\* a setupListeners that closes the connections of the sessions as well:
\* C15 fails with it
RehashSetupListenersClosing ==
    \E g \in RehashTasks, bindable \in SUBSET {Addr1, Addr2} :
        /\ rehash[g].pc = "listeners"
        /\ LET r == setupListeners(listeners, created, rehash[g].config, bindable)
           IN  /\ listeners' = r.listeners
               /\ created' = r.created
               /\ rehash' = [rehash EXCEPT
                                ![g].pc = IF r.err = "nil" THEN "unlock"
                                          ELSE "applyFailed"]
        /\ webCloses' = webCloses + 1
        /\ UNCHANGED <<rehashMutex, once, uCloses>>
        /\ UNCHANGED <<config, reqVars, sessVars, toVars, fromVars, xcodeVars, pc>>

\* applyConfig: server.setupListeners(config); on an error rehash logs
\* "Failed to rehash" and returns the error
RehashSetupListeners ==
    \E g \in RehashTasks, bindable \in SUBSET {Addr1, Addr2} :
        /\ rehash[g].pc = "listeners"
        /\ LET r == setupListeners(listeners, created, rehash[g].config, bindable)
           IN  /\ listeners' = r.listeners
               /\ created' = r.created
               /\ rehash' = [rehash EXCEPT
                                ![g].pc = IF r.err = "nil" THEN "unlock"
                                          ELSE "applyFailed"]
        /\ UNCHANGED rehashMutex
        /\ UNCHANGED <<config, reqVars, sessVars, toVars, fromVars, xcodeVars, closeVars, pc>>

\* rehash returns: the deferred Unlock
RehashUnlock ==
    \E g \in RehashTasks :
        /\ rehash[g].pc \in {"unlock", "failed", "applyFailed"}
        /\ rehashMutex' = Free
        /\ rehash' = [rehash EXCEPT ![g] = [pc |-> "done", config |-> NoConfig]]
        /\ UNCHANGED <<listeners, created>>
        /\ UNCHANGED <<config, reqVars, sessVars, toVars, fromVars, xcodeVars, closeVars, pc>>

---------------------------------------------------------------------------
(* irc/reverseproxy.go: the bridge of one accepted connection.             *)

TextMessage == "text"
BinaryMessage == "binary"

\* The bytes of a websocket message are named, not spelled out: the run
\* [msg |-> k, from |-> i, to |-> j] stands for the bytes i..j of the k-th
\* message the client sent, and a run of message 0 for the zero bytes a
\* buffer is made with.  The contents of a buffer are a sequence of runs.
Run(k, i, j) == IF j < i THEN <<>> ELSE <<[msg |-> k, from |-> i, to |-> j]>>

\* make([]byte, n)
Zeros(n) == Run(0, 1, n)

RECURSIVE TakeRuns(_, _)
\* b[:n]
TakeRuns(b, n) ==
    IF n <= 0 \/ Len(b) = 0 THEN <<>>
    ELSE LET h == b[1]
             l == h.to - h.from + 1
         IN  IF l >= n THEN Run(h.msg, h.from, h.from + n - 1)
             ELSE <<h>> \o TakeRuns(Tail(b), n - l)

RECURSIVE DropRuns(_, _)
\* b[n:]
DropRuns(b, n) ==
    IF Len(b) = 0 THEN <<>>
    ELSE IF n <= 0 THEN b
    ELSE LET h == b[1]
             l == h.to - h.from + 1
         IN  IF l > n THEN Run(h.msg, h.from + n, h.to) \o Tail(b)
             ELSE DropRuns(Tail(b), n - l)

\* two byte strings one after the other, runs that continue each other
\* written as one
JoinRuns(a, b) ==
    IF Len(a) > 0 /\ Len(b) > 0 /\ a[Len(a)].msg = b[1].msg
                 /\ a[Len(a)].to + 1 = b[1].from
    THEN Take(a, Len(a) - 1) \o Run(b[1].msg, a[Len(a)].from, b[1].to) \o Tail(b)
    ELSE a \o b

\* a Read that puts the bytes from..from+n-1 of message k into b[at:]
ReadInto(b, at, k, from, n) ==
    JoinRuns(JoinRuns(TakeRuns(b, at), Run(k, from, from + n - 1)),
             DropRuns(b, at + n))

crlf == <<13, 10>>

\* the snapshots a reload can publish
SessionConfigs ==
    {ReplacementConfig,
     MakeConfig(FALSE, <<Latin1>>, DefaultMaxLineLen + ExtraLineLen, FALSE),
     ChardetConfig}

\* the request of the session: from a trusted proxy that names the client
SessionRequests ==
    {MakeRequest(TrustedPeer, NilIP, <<ClientIP>>, "https", <<>>, FALSE,
                 PlainListener, subprotocol) :
        subprotocol \in {TextSubprotocol, BinarySubprotocol}}

\* the lines the upstream sends to the session
SessionLines == {<<65>>, <<65, 32, 239>>}

\* the sizes of the messages the client sends: around the initial buffer
\* and around the read queue of every snapshot
MessageSizes ==
    {1, initialBufferSize}
        \cup {c.maxReadQBytes + d : c \in SessionConfigs, d \in {-1, 0, 1}}

NoLine == <<>>

\* the transcoder's locals between two calls
XcodeIdle ==
    /\ usedCfg = NoConfig
    /\ rest = <<>>
    /\ out = <<>>
    /\ bodyLength = 0
    /\ result = <<>>
    /\ alias = FALSE

\* NewReverseProxyConn has started the forwarders
Bridged == phase = "bridged"

WebClosed == webCloses > 0
UpstreamClosed == uCloses > 0

\* WSListener.handle, when the upgrade fails: nothing is kept
HandleUpgradeError ==
    /\ phase = "listening"
    /\ phase' = "refused"
    /\ UNCHANGED <<sessCfg, dials, messageType, readLimit, rMaxLineLen, rMaxBuffer>>
    /\ UNCHANGED <<config, srvVars, reqVars, toVars, fromVars, xcodeVars, closeVars, pc>>

\* WSListener.handle, when the connection under the upgrade is no
\* WrappedConn: the websocket connection is closed
HandleNonProxied ==
    /\ phase = "listening"
    /\ CheckOrigin(config, request.Origin)
    /\ webCloses' = webCloses + 1
    /\ phase' = "refused"
    /\ UNCHANGED <<sessCfg, dials, messageType, readLimit, rMaxLineLen, rMaxBuffer>>
    /\ UNCHANGED <<config, srvVars, reqVars, toVars, fromVars, xcodeVars, once, uCloses, pc>>

\* WSListener.handle, for an upgrade that succeeds on a wrapped connection:
\* the snapshot is loaded once, the origin is checked against it, the
\* proxy data of the connection is resolved with it, the read limit is set
\* from it and RunReverseProxyConn is started with it
Handle ==
    /\ phase = "listening"
    /\ CheckOrigin(config, request.Origin)
    /\ wConn' = confirmProxyData(wConn, request.RemoteAddr, request.XForwardedFor,
                                 request.XForwardedProto, config)
    /\ sessCfg' = config
    /\ readLimit' = config.maxReadQBytes
    /\ phase' = "upgraded"
    /\ UNCHANGED <<dials, messageType, rMaxLineLen, rMaxBuffer>>
    /\ UNCHANGED <<config, srvVars, request, toVars, fromVars, xcodeVars, closeVars, pc>>

\* NewReverseProxyConn: the fields of the ReverseProxyConn
NewReverseProxyConn(maxLineLen, maxReadQ) ==
    [maxLineLen |-> maxLineLen, maxBuffer |-> maxReadQ, wsBuffer |-> initialBufferSize]

\* a RunReverseProxyConn that, when the dial fails, goes on to pick an
\* upstream again: C25 fails with it
RunReverseProxyConnDialErrorRetrying ==
    /\ phase = "upgraded"
    /\ Len(dials) < 2
    /\ \E u \in 1..Len(sessCfg.Upstreams) : dials' = Append(dials, u)
    /\ UNCHANGED <<phase, sessCfg, messageType, readLimit, rMaxLineLen, rMaxBuffer>>
    /\ UNCHANGED <<config, srvVars, reqVars, toVars, fromVars, xcodeVars, closeVars, pc>>

\* RunReverseProxyConn when the dial fails: the client side is closed and
\* no forwarder is started
RunReverseProxyConnDialError ==
    /\ phase = "upgraded"
    /\ \E u \in 1..Len(sessCfg.Upstreams) : dials' = Append(dials, u)
    /\ webCloses' = webCloses + 1
    /\ phase' = "dialfailed"
    /\ UNCHANGED <<sessCfg, messageType, readLimit, rMaxLineLen, rMaxBuffer>>
    /\ UNCHANGED <<config, srvVars, reqVars, toVars, fromVars, xcodeVars, once, uCloses, pc>>

\* what the upstream connection has received
WebircEntry(bytes) == [kind |-> "WEBIRC", bytes |-> bytes]
MessageEntry(size, buffers) ==
    [kind |-> "message", size |-> size, buffers |-> buffers]

\* RunReverseProxyConn: the address the session is for
EffectiveIP(conn) ==
    IF conn.ProxiedIP = NilIP THEN conn.RemoteAddr ELSE conn.ProxiedIP

\* utils.IPStringToHostname
IPStringToHostname(ipStr) ==
    IF 0 < Len(ipStr) /\ ipStr[1] = COLON THEN <<ZERO>> \o ipStr ELSE ipStr

\* "WEBIRC" and "secure"
WebircCommand == <<87, 69, 66, 73, 82, 67>>
SecureFlag == <<115, 101, 99, 117, 114, 101>>
\* "host.example", a name a reverse lookup returns
LookedUpHostname == <<104, 111, 115, 116, 46, 101, 120, 97, 109, 112, 108, 101>>

\* ircmsg.MakeMessage
MakeMessage(tags, prefix, command, params) ==
    [tags |-> tags, Prefix |-> prefix, Command |-> command, Params |-> params]

\* RunReverseProxyConn: what utils.LookupHostname may return, or the
\* address itself when lookups are off
Hostnames(cfg, ipString) ==
    IF cfg.LookupHostnames THEN {ipString, LookedUpHostname} ELSE {ipString}

\* RunReverseProxyConn: the WEBIRC message for an upstream
WebircMessage(cfg, upstream, hostname, ipString, secure) ==
    MakeMessage(<<>>, <<>>, WebircCommand,
                <<upstream.Password, cfg.GatewayName, hostname, ipString,
                  IF secure THEN SecureFlag ELSE <<>>>>)

\* a RunReverseProxyConn that writes whatever the serializer returned,
\* error or not: C23 fails with it
RunReverseProxyConnUnchecked ==
    /\ phase = "upgraded"
    /\ messageType' = IF request.Subprotocol = BinarySubprotocol
                      THEN BinaryMessage ELSE TextMessage
    /\ \E u \in 1..Len(sessCfg.Upstreams) :
          LET upstream == sessCfg.Upstreams[u]
              ipString == IPStringToHostname(IPText(EffectiveIP(wConn)))
          IN  /\ dials' = Append(dials, u)
              /\ IF upstream.Enabled
                 THEN \E hostname \in Hostnames(sessCfg, ipString),
                         written \in BOOLEAN :
                         LET m == LineBytesStrict(
                                      WebircMessage(sessCfg, upstream, hostname,
                                                    ipString, wConn.Secure),
                                      DefaultMaxLineLen)
                         IN  uLog' = IF written
                                     THEN Append(uLog, WebircEntry(m.bytes))
                                     ELSE uLog
                 ELSE UNCHANGED uLog
    /\ LET r == NewReverseProxyConn(sessCfg.MaxLineLen, sessCfg.maxReadQBytes)
       IN  /\ rMaxLineLen' = r.maxLineLen
           /\ rMaxBuffer' = r.maxBuffer
           /\ wsBufferLen' = r.wsBuffer
           /\ wsBuffer' = Zeros(r.wsBuffer)
    /\ pc' = [to |-> "read", from |-> "read"]
    /\ phase' = "bridged"
    /\ UNCHANGED <<sessCfg, readLimit, wsIn, toLine, wsMessage, toErr>>
    /\ UNCHANGED <<config, srvVars, reqVars, fromVars, xcodeVars, closeVars>>

\* a RunReverseProxyConn that gives the session up when the WEBIRC line
\* cannot be sent: C24 fails with it
RunReverseProxyConnAborting ==
    /\ phase = "upgraded"
    /\ \E u \in 1..Len(sessCfg.Upstreams) :
          /\ dials' = Append(dials, u)
          /\ sessCfg.Upstreams[u].Enabled
    /\ webCloses' = webCloses + 1
    /\ uCloses' = uCloses + 1
    /\ phase' = "aborted"
    /\ UNCHANGED <<sessCfg, messageType, readLimit, rMaxLineLen, rMaxBuffer>>
    /\ UNCHANGED <<config, srvVars, reqVars, toVars, fromVars, xcodeVars, once, pc>>

\* RunReverseProxyConn when the dial succeeds: the message type follows the
\* subprotocol, the WEBIRC line is written if the upstream asks for it (a
\* failure of the write is logged and nothing else), and NewReverseProxyConn
\* starts the two forwarders
RunReverseProxyConn ==
    /\ phase = "upgraded"
    /\ messageType' = IF request.Subprotocol = BinarySubprotocol
                      THEN BinaryMessage ELSE TextMessage
    /\ \E u \in 1..Len(sessCfg.Upstreams) :
          LET upstream == sessCfg.Upstreams[u]
              ipString == IPStringToHostname(IPText(EffectiveIP(wConn)))
          IN  /\ dials' = Append(dials, u)
              /\ IF upstream.Enabled
                 THEN \E hostname \in Hostnames(sessCfg, ipString),
                         written \in BOOLEAN :
                         LET m == LineBytesStrict(
                                      WebircMessage(sessCfg, upstream, hostname,
                                                    ipString, wConn.Secure),
                                      DefaultMaxLineLen)
                         IN  uLog' = IF m.err = "" /\ written
                                     THEN Append(uLog, WebircEntry(m.bytes))
                                     ELSE uLog
                 ELSE UNCHANGED uLog
    /\ LET r == NewReverseProxyConn(sessCfg.MaxLineLen, sessCfg.maxReadQBytes)
       IN  /\ rMaxLineLen' = r.maxLineLen
           /\ rMaxBuffer' = r.maxBuffer
           /\ wsBufferLen' = r.wsBuffer
           /\ wsBuffer' = Zeros(r.wsBuffer)
    /\ pc' = [to |-> "read", from |-> "read"]
    /\ phase' = "bridged"
    /\ UNCHANGED <<sessCfg, readLimit, wsIn, toLine, wsMessage, toErr>>
    /\ UNCHANGED <<config, srvVars, reqVars, fromVars, xcodeVars, closeVars>>

\* the client messages written to the upstream
UpstreamMessages == SelectSeq(uLog, LAMBDA e : e.kind = "message")

\* Server.rehash from beginning to end, with a configuration that loads:
\* applyConfig publishes it and sets up the listeners
Rehash ==
    /\ rehashMutex = Free
    /\ \E c \in SessionConfigs \ {config}, bindable \in SUBSET {Addr1, Addr2} :
          /\ config' = c
          /\ LET r == setupListeners(listeners, created, c, bindable)
             IN  /\ listeners' = r.listeners
                 /\ created' = r.created
    /\ UNCHANGED <<rehashMutex, rehash>>
    /\ UNCHANGED <<reqVars, sessVars, toVars, fromVars, xcodeVars, closeVars, pc>>

\* io.ReadFull of a reader with `avail` bytes left into `room` bytes
ReadFull(avail, room) ==
    [n   |-> Min(avail, room),
     err |-> IF avail >= room THEN "nil"
             ELSE IF avail = 0 THEN "EOF" ELSE "ErrUnexpectedEOF"]

\* a reader that takes the whole message whatever its size: C6 fails with it
readWSMessageUnbounded(size, limit, bufLen, maxBuffer) ==
    [n |-> size, wsBuffer |-> Max(bufLen, size), err |-> "nil"]

\* a readWSMessage that makes the buffer twice as long whenever a message
\* fills it: C36 fails with it
readWSMessageDoubling(size, limit, bufLen, maxBuffer) ==
    LET first  == ReadFull(size, bufLen)
        grow   == first.err = "nil"
        second == ReadFull(size - first.n, bufLen)
        n      == IF grow THEN first.n + second.n ELSE first.n
        err    == IF grow THEN second.err ELSE first.err
    IN  IF limit > 0 /\ size > limit
        THEN [n |-> 0, wsBuffer |-> bufLen, err |-> "ErrReadLimit"]
        ELSE [n        |-> n,
              wsBuffer |-> IF grow THEN 2 * bufLen ELSE bufLen,
              err      |-> IF err \in {"ErrUnexpectedEOF", "EOF"} THEN "nil"
                           ELSE "ErrReadLimit"]

\* readWSMessage on a message of `size` bytes, sent in one frame: the
\* length of the returned line, the error, and len(r.wsBuffer) afterwards.
\* A message above the connection's read limit fails in NextReader with
\* ErrReadLimit, the frame announcing its size.
readWSMessage(size, limit, bufLen, maxBuffer) ==
    LET first  == ReadFull(size, bufLen)
        grow   == first.err = "nil" /\ bufLen < maxBuffer
        second == ReadFull(size - first.n, maxBuffer - first.n)
        n      == IF grow THEN first.n + second.n ELSE first.n
        err    == IF grow THEN second.err ELSE first.err
    IN  IF limit > 0 /\ size > limit
        THEN [n |-> 0, wsBuffer |-> bufLen, err |-> "ErrReadLimit"]
        ELSE [n        |-> n,
              wsBuffer |-> IF grow THEN maxBuffer ELSE bufLen,
              err      |-> IF err \in {"ErrUnexpectedEOF", "EOF"} THEN "nil"
                           ELSE "ErrReadLimit"]

\* a readWSMessage that allocates the larger buffer and leaves out the
\* copy of what was read so far: C27 fails with it
readWSBufferUncopied(k, size, limit, buf, bufLen, maxBuffer) ==
    LET first  == ReadFull(size, bufLen)
        grow   == first.err = "nil" /\ bufLen < maxBuffer
        buf1   == ReadInto(buf, 0, k, 1, first.n)
        newBuf == Zeros(maxBuffer)
        second == ReadFull(size - first.n, maxBuffer - first.n)
    IN  IF limit > 0 /\ size > limit THEN buf
        ELSE IF grow THEN ReadInto(newBuf, first.n, k, first.n + 1, second.n)
        ELSE buf1

\* readWSMessage on the k-th message, of `size` bytes: the contents of
\* r.wsBuffer afterwards.  The first ReadFull fills the buffer from its
\* start; if that fills it, a buffer of maxBuffer bytes is made, what was
\* read is copied to it and a second ReadFull goes on behind that.
readWSBuffer(k, size, limit, buf, bufLen, maxBuffer) ==
    LET first  == ReadFull(size, bufLen)
        grow   == first.err = "nil" /\ bufLen < maxBuffer
        buf1   == ReadInto(buf, 0, k, 1, first.n)
        newBuf == JoinRuns(TakeRuns(buf1, first.n),
                           DropRuns(Zeros(maxBuffer), first.n))
        second == ReadFull(size - first.n, maxBuffer - first.n)
    IN  IF limit > 0 /\ size > limit THEN buf
        ELSE IF grow THEN ReadInto(newBuf, first.n, k, first.n + 1, second.n)
        ELSE buf1

\* proxyToUpstream reads a message the client has sent; the line it has
\* then is r.wsBuffer[:n]
ToReadMessage(size) ==
    /\ pc.to = "read"
    /\ ~WebClosed
    /\ LET m == readWSMessage(size, readLimit, wsBufferLen, rMaxBuffer)
       IN  /\ wsMessage' = size
           /\ wsIn' = Append(wsIn, size)
           /\ wsBuffer' = readWSBuffer(Len(wsIn) + 1, size, readLimit,
                                       wsBuffer, wsBufferLen, rMaxBuffer)
           /\ wsBufferLen' = m.wsBuffer
           /\ toErr' = m.err
           /\ IF m.err = "nil"
              THEN /\ toLine' = m.n
                   /\ pc' = [pc EXCEPT !.to = "write"]
              ELSE /\ pc' = [pc EXCEPT !.to = "close"]
                   /\ UNCHANGED toLine
    /\ UNCHANGED uLog
    /\ UNCHANGED <<config, srvVars, reqVars, sessVars, fromVars, xcodeVars, closeVars>>

\* proxyToUpstream: the read fails because the client went away
ToReadError ==
    /\ pc.to = "read"
    /\ ~WebClosed
    /\ toErr' = "read error"
    /\ pc' = [pc EXCEPT !.to = "close"]
    /\ UNCHANGED <<wsBufferLen, wsBuffer, wsIn, toLine, uLog, wsMessage>>
    /\ UNCHANGED <<config, srvVars, reqVars, sessVars, fromVars, xcodeVars, closeVars>>

\* proxyToUpstream: a read on the closed websocket connection fails
ToReadClosed ==
    /\ pc.to = "read"
    /\ WebClosed
    /\ toErr' = "read error"
    /\ pc' = [pc EXCEPT !.to = "close"]
    /\ UNCHANGED <<wsBufferLen, wsBuffer, wsIn, toLine, uLog, wsMessage>>
    /\ UNCHANGED <<config, srvVars, reqVars, sessVars, fromVars, xcodeVars, closeVars>>

\* proxyToUpstream writes the line and CRLF to the upstream
ToWrite ==
    /\ pc.to = "write"
    /\ ~UpstreamClosed
    /\ uLog' = Append(uLog, MessageEntry(toLine, <<TakeRuns(wsBuffer, toLine), crlf>>))
    /\ pc' = [pc EXCEPT !.to = "read"]
    /\ UNCHANGED <<wsBufferLen, wsBuffer, wsIn, toLine, wsMessage, toErr>>
    /\ UNCHANGED <<config, srvVars, reqVars, sessVars, fromVars, xcodeVars, closeVars>>

\* proxyToUpstream: the write fails because the upstream went away
ToWriteError ==
    /\ pc.to = "write"
    /\ ~UpstreamClosed
    /\ pc' = [pc EXCEPT !.to = "close"]
    /\ UNCHANGED <<config, srvVars, reqVars, sessVars, toVars, fromVars, xcodeVars, closeVars>>

\* proxyToUpstream: a write on the closed upstream connection fails
ToWriteClosed ==
    /\ pc.to = "write"
    /\ UpstreamClosed
    /\ pc' = [pc EXCEPT !.to = "close"]
    /\ UNCHANGED <<config, srvVars, reqVars, sessVars, toVars, fromVars, xcodeVars, closeVars>>

\* a forwarder that calls transcodeToUTF8 whatever the message type: C26
\* fails with it
FromReadLineTranscoding(l) ==
    /\ pc.from = "read"
    /\ ~UpstreamClosed
    /\ line' = l
    /\ result' = <<>>
    /\ alias' = FALSE
    /\ pc' = [pc EXCEPT !.from = "transcode"]
    /\ usedCfg' = NoConfig
    /\ rest' = <<>>
    /\ out' = <<>>
    /\ bodyLength' = 0
    /\ uIn' = Append(uIn, line')
    /\ UNCHANGED wLog
    /\ UNCHANGED <<config, srvVars, reqVars, sessVars, toVars, closeVars>>

\* proxyFromUpstream reads a line; a binary session sends it as it is, a
\* text session calls transcodeToUTF8 on it
FromReadLine(l) ==
    /\ pc.from = "read"
    /\ ~UpstreamClosed
    /\ line' = l
    /\ IF messageType = BinaryMessage
       THEN /\ result' = line'
            /\ alias' = TRUE
            /\ pc' = [pc EXCEPT !.from = "write"]
       ELSE /\ result' = <<>>
            /\ alias' = FALSE
            /\ pc' = [pc EXCEPT !.from = "transcode"]
    /\ usedCfg' = NoConfig
    /\ rest' = <<>>
    /\ out' = <<>>
    /\ bodyLength' = 0
    /\ uIn' = Append(uIn, line')
    /\ UNCHANGED wLog
    /\ UNCHANGED <<config, srvVars, reqVars, sessVars, toVars, closeVars>>

\* proxyFromUpstream: the read fails because the upstream went away or sent
\* a line above the read queue
FromReadError ==
    /\ pc.from = "read"
    /\ ~UpstreamClosed
    /\ pc' = [pc EXCEPT !.from = "close"]
    /\ UNCHANGED <<config, srvVars, reqVars, sessVars, toVars, fromVars, xcodeVars, closeVars>>

\* proxyFromUpstream: a read on the closed upstream connection fails
FromReadClosed ==
    /\ pc.from = "read"
    /\ UpstreamClosed
    /\ pc' = [pc EXCEPT !.from = "close"]
    /\ UNCHANGED <<config, srvVars, reqVars, sessVars, toVars, fromVars, xcodeVars, closeVars>>

\* the chardet code panics inside transcodeToUTF8
TranscodePanic ==
    /\ pc.from = "transcode"
    /\ ~ValidUTF8(line)
    /\ Strategy(config) = "chardet"
    /\ usedCfg' = config
    /\ pc' = [pc EXCEPT !.from = "panic"]
    /\ UNCHANGED <<rest, out, bodyLength, result, alias>>
    /\ UNCHANGED <<config, srvVars, reqVars, sessVars, toVars, fromVars, closeVars>>

\* the calls each forwarder defers, in the order of its defer statements
\* (they run last first): proxyToUpstream defers its Close and log,
\* proxyFromUpstream its Close and log and then Server.HandlePanic
Deferred == [to |-> <<"Close">>, from |-> <<"Close", "HandlePanic">>]

\* a HandlePanic that does not call recover(): the panic goes on and the
\* goroutine ends without the session being closed; C30 fails with it
HandlePanicUnrecovered ==
    /\ pc.from = "panic"
    /\ Deferred.from[Len(Deferred.from)] = "HandlePanic"
    /\ pc' = [pc EXCEPT !.from = "exited"]
    /\ UNCHANGED <<config, srvVars, reqVars, sessVars, toVars, fromVars, xcodeVars, closeVars>>

\* Server.HandlePanic, deferred by proxyFromUpstream: the panic is recovered
\* and logged, and the deferred Close comes next
HandlePanic ==
    /\ pc.from = "panic"
    /\ Deferred.from[Len(Deferred.from)] = "HandlePanic"
    /\ pc' = [pc EXCEPT !.from = "close"]
    /\ UNCHANGED <<config, srvVars, reqVars, sessVars, toVars, fromVars, xcodeVars, closeVars>>

\* a forwarder that sends the frame of a line twice: C28 fails with it
FromWriteTwice ==
    /\ pc.from = "write"
    /\ ~WebClosed
    /\ wLog' = wLog \o << [type |-> messageType, payload |-> result, of |-> line],
                          [type |-> messageType, payload |-> result, of |-> line] >>
    /\ pc' = [pc EXCEPT !.from = "read"]
    /\ usedCfg' = NoConfig
    /\ rest' = <<>>
    /\ out' = <<>>
    /\ bodyLength' = 0
    /\ result' = <<>>
    /\ alias' = FALSE
    /\ UNCHANGED <<line, uIn>>
    /\ UNCHANGED <<config, srvVars, reqVars, sessVars, toVars, closeVars>>

\* a forwarder that sends the frame to the client and the line it came
\* from back to the upstream: C37 fails with it
FromWriteEchoing ==
    /\ pc.from = "write"
    /\ ~WebClosed
    /\ wLog' = Append(wLog, [type |-> messageType, payload |-> result, of |-> line])
    /\ uLog' = Append(uLog, MessageEntry(Len(line), <<line, crlf>>))
    /\ pc' = [pc EXCEPT !.from = "read"]
    /\ usedCfg' = NoConfig
    /\ rest' = <<>>
    /\ out' = <<>>
    /\ bodyLength' = 0
    /\ result' = <<>>
    /\ alias' = FALSE
    /\ UNCHANGED <<line, uIn>>
    /\ UNCHANGED <<wsBufferLen, wsBuffer, wsIn, toLine, wsMessage, toErr>>
    /\ UNCHANGED <<config, srvVars, reqVars, sessVars, closeVars>>

\* proxyFromUpstream sends the frame to the client
FromWrite ==
    /\ pc.from = "write"
    /\ ~WebClosed
    /\ wLog' = Append(wLog, [type |-> messageType, payload |-> result, of |-> line])
    /\ pc' = [pc EXCEPT !.from = "read"]
    /\ usedCfg' = NoConfig
    /\ rest' = <<>>
    /\ out' = <<>>
    /\ bodyLength' = 0
    /\ result' = <<>>
    /\ alias' = FALSE
    /\ UNCHANGED <<line, uIn>>
    /\ UNCHANGED <<config, srvVars, reqVars, sessVars, toVars, closeVars>>

\* proxyFromUpstream: the write fails because the client went away
FromWriteError ==
    /\ pc.from = "write"
    /\ ~WebClosed
    /\ pc' = [pc EXCEPT !.from = "close"]
    /\ UNCHANGED <<config, srvVars, reqVars, sessVars, toVars, fromVars, xcodeVars, closeVars>>

\* proxyFromUpstream: a write on the closed websocket connection fails
FromWriteClosed ==
    /\ pc.from = "write"
    /\ WebClosed
    /\ pc' = [pc EXCEPT !.from = "close"]
    /\ UNCHANGED <<config, srvVars, reqVars, sessVars, toVars, fromVars, xcodeVars, closeVars>>

Forwarders == {"to", "from"}

\* a latch that lets every caller in: C4 fails with it
OnceDoEvery(o) == [enter |-> TRUE, return |-> FALSE, once |-> "running"]

\* ReverseProxyConn.Close, called by the deferred function of forwarder f:
\* closeOnce.Do(r.realClose).  The first caller runs realClose; a caller
\* that finds it running waits for it; a caller that finds it done returns.
OnceDo(o) ==
    IF o = "idle" THEN [enter |-> TRUE, return |-> FALSE, once |-> "running"]
    ELSE IF o = "running" THEN [enter |-> FALSE, return |-> FALSE, once |-> o]
    ELSE [enter |-> FALSE, return |-> TRUE, once |-> o]

\* a forwarder that ends without calling Close: C5 fails with it
CloseForgotten(f) ==
    /\ pc[f] = "close"
    /\ pc' = [pc EXCEPT ![f] = "exited"]
    /\ UNCHANGED <<config, srvVars, reqVars, sessVars, toVars, fromVars, xcodeVars, closeVars>>

Close(f) ==
    /\ pc[f] = "close"
    /\ LET d == OnceDo(once)
       IN  /\ d.enter \/ d.return
           /\ once' = d.once
           /\ pc' = [pc EXCEPT ![f] = IF d.enter THEN "realClose" ELSE "exited"]
    /\ UNCHANGED <<webCloses, uCloses>>
    /\ UNCHANGED <<config, srvVars, reqVars, sessVars, toVars, fromVars, xcodeVars>>

\* realClose: r.webConn.Close()
RealCloseWeb(f) ==
    /\ pc[f] = "realClose"
    /\ webCloses' = webCloses + 1
    /\ pc' = [pc EXCEPT ![f] = "realClose2"]
    /\ UNCHANGED <<once, uCloses>>
    /\ UNCHANGED <<config, srvVars, reqVars, sessVars, toVars, fromVars, xcodeVars>>

\* realClose: r.uConn.Close(); Do returns and the forwarder ends
RealCloseUpstream(f) ==
    /\ pc[f] = "realClose2"
    /\ uCloses' = uCloses + 1
    /\ once' = "done"
    /\ pc' = [pc EXCEPT ![f] = "exited"]
    /\ UNCHANGED webCloses
    /\ UNCHANGED <<config, srvVars, reqVars, sessVars, toVars, fromVars, xcodeVars>>

---------------------------------------------------------------------------
(* The server with one connection.                                         *)

Init ==
    /\ config \in SessionConfigs
    /\ phase = "listening"
    /\ sessCfg = NoConfig
    /\ dials = <<>>
    /\ messageType = TextMessage
    /\ readLimit = 0
    /\ rMaxLineLen = 0
    /\ rMaxBuffer = 0
    /\ wsBufferLen = 0
    /\ wsBuffer = <<>>
    /\ wsIn = <<>>
    /\ uIn = <<>>
    /\ pc = [to |-> "idle", from |-> "idle"]
    /\ toLine = 0
    /\ uLog = <<>>
    /\ wsMessage = 0
    /\ toErr = "nil"
    /\ line = NoLine
    /\ wLog = <<>>
    /\ XcodeIdle
    /\ once = "idle"
    /\ webCloses = 0
    /\ uCloses = 0
    /\ request \in SessionRequests
    /\ wConn = AcceptedConn(request)
    /\ listeners = InitialListeners(config).listeners
    /\ created = InitialListeners(config).created
    /\ rehashMutex = Free
    /\ rehash = [g \in RehashTasks |-> [pc |-> "idle", config |-> NoConfig]]

\* the steps of a forwarder that do not wait for the peer
ToProgress ==
    \/ ToReadClosed
    \/ ToWrite
    \/ ToWriteClosed
    \/ Close("to")
    \/ RealCloseWeb("to")
    \/ RealCloseUpstream("to")

FromProgress ==
    \/ FromReadClosed
    \/ TranscodeIdentity
    \/ ReplacementBegin
    \/ ReplacementStep
    \/ ReplacementReturn
    \/ TranscodeChardet
    \/ TranscodeEncodingList
    \/ HandlePanic
    \/ FromWrite
    \/ FromWriteClosed
    \/ Close("from")
    \/ RealCloseWeb("from")
    \/ RealCloseUpstream("from")

Next ==
    \/ HandleUpgradeError
    \/ HandleNonProxied
    \/ Handle
    \/ RunReverseProxyConnDialError
    \/ RunReverseProxyConn
    \/ Rehash
    \/ \E size \in MessageSizes :
          Len(UpstreamMessages) < MaxMessages /\ ToReadMessage(size)
    \/ ToReadError
    \/ ToWriteError
    \/ \E l \in SessionLines : Len(wLog) < MaxLines /\ FromReadLine(l)
    \/ FromReadError
    \/ TranscodePanic
    \/ FromWriteError
    \/ ToProgress
    \/ FromProgress

Spec == Init /\ [][Next]_vars

\* the scheduler runs every goroutine that can take a step; nothing makes
\* the client or the upstream send anything or go away
FairSpec == Spec /\ WF_vars(ToProgress) /\ WF_vars(FromProgress)

---------------------------------------------------------------------------
(* One session and its data: a connection that is upgraded, dialed and     *)
(* bridged under one snapshot, with the bytes of what each side sends.     *)

\* the snapshots of the session: two upstreams of which the first takes
\* WEBIRC; one upstream whose WEBIRC password, "P P", is no IRC parameter;
\* a list of encodings; chardet
BridgeConfigs ==
    {[ReplacementConfig EXCEPT
         !.Upstreams = <<[Enabled |-> TRUE, Password |-> DefaultPassword],
                         [Enabled |-> FALSE, Password |-> <<>>]>>],
     [ReplacementConfig EXCEPT
         !.Upstreams = <<[Enabled |-> TRUE, Password |-> <<80, SP, 80>>]>>],
     MakeConfig(FALSE, <<Latin1>>, DefaultMaxLineLen + ExtraLineLen, FALSE),
     MakeConfig(FALSE, <<ControlEnc>>, DefaultMaxLineLen, FALSE),
     ChardetConfig}

\* the lines the upstream sends: "A", "A \xEF", "\xEF", whose command is
\* not UTF-8, ":\xEF", which has a prefix and no command, and "A %\xEF",
\* whose parameter decodes to a line feed under the control encoding
BridgeLines ==
    {<<65>>, <<65, SP, 239>>, <<239>>, <<COLON, 239>>, <<65, SP, 37, 239>>}

\* the request of the session, with each outcome of the negotiation of
\* the subprotocol
BridgeRequests ==
    {MakeRequest(TrustedPeer, NilIP, <<ClientIP>>, "https", <<>>, FALSE,
                 PlainListener, subprotocol) :
        subprotocol \in {"", TextSubprotocol, BinarySubprotocol}}

\* the sizes of the messages the client sends: one byte, the initial
\* buffer, and one byte more
BridgeSizes == {1, initialBufferSize, initialBufferSize + 1}

BridgeInit ==
    /\ config \in BridgeConfigs
    /\ phase = "listening"
    /\ sessCfg = NoConfig
    /\ dials = <<>>
    /\ messageType = TextMessage
    /\ readLimit = 0
    /\ rMaxLineLen = 0
    /\ rMaxBuffer = 0
    /\ wsBufferLen = 0
    /\ wsBuffer = <<>>
    /\ wsIn = <<>>
    /\ uIn = <<>>
    /\ pc = [to |-> "idle", from |-> "idle"]
    /\ toLine = 0
    /\ uLog = <<>>
    /\ wsMessage = 0
    /\ toErr = "nil"
    /\ line = NoLine
    /\ wLog = <<>>
    /\ XcodeIdle
    /\ once = "idle"
    /\ webCloses = 0
    /\ uCloses = 0
    /\ request \in BridgeRequests
    /\ wConn = AcceptedConn(request)
    /\ listeners = InitialListeners(config).listeners
    /\ created = InitialListeners(config).created
    /\ rehashMutex = Free
    /\ rehash = [g \in RehashTasks |-> [pc |-> "idle", config |-> NoConfig]]

BridgeNext ==
    \/ Handle
    \/ RunReverseProxyConnDialError
    \/ RunReverseProxyConn
    \/ \E size \in BridgeSizes :
          Len(wsIn) < MaxMessages /\ ToReadMessage(size)
    \/ ToReadError
    \/ ToWriteError
    \/ \E l \in BridgeLines : Len(uIn) < MaxBridgeLines /\ FromReadLine(l)
    \/ FromReadError
    \/ TranscodePanic
    \/ FromWriteError
    \/ ToProgress
    \/ FromProgress

BridgeSpec == BridgeInit /\ [][BridgeNext]_vars

---------------------------------------------------------------------------
(* The transcoder on its own: transcodeToUTF8 on every line of the model   *)
(* under every transcoding configuration, in a text session whose          *)
(* forwarder has just read the line.                                       *)

\* what a line may start with: nothing, a tags segment with a valid tag, a
\* tags segment holding a non-UTF-8 byte, tags with no space after them, a
\* prefix holding a non-UTF-8 byte
LineHeads == {<<>>, <<64, 65, 32>>, <<64, 239, 32>>, <<64>>, <<58, 239, 32>>}
LineTails == {<<>>, <<32, 65>>}

ShortLines == {h \o s : h \in LineHeads, s \in SeqsUpTo(BodyBytes, MaxLen)}
LongLines ==
    {h \o s \o Rep(b, LongRun) \o t :
        h \in LineHeads, s \in SeqsUpTo(BodyBytes, MaxLongHead),
        b \in {239, 65}, t \in LineTails}
Lines == ShortLines \cup LongLines

TranscoderInit ==
    /\ config \in TranscoderConfigs
    /\ phase = "bridged"
    /\ sessCfg = config
    /\ dials = <<1>>
    /\ messageType = TextMessage
    /\ readLimit = config.maxReadQBytes
    /\ rMaxLineLen = config.MaxLineLen
    /\ rMaxBuffer = config.maxReadQBytes
    /\ wsBufferLen = initialBufferSize
    /\ wsBuffer = Zeros(initialBufferSize)
    /\ wsIn = <<>>
    /\ uIn = <<>>
    /\ pc = [to |-> "read", from |-> "transcode"]
    /\ toLine = 0
    /\ uLog = <<>>
    /\ wsMessage = 0
    /\ toErr = "nil"
    /\ line \in Lines
    /\ wLog = <<>>
    /\ XcodeIdle
    /\ once = "idle"
    /\ webCloses = 0
    /\ uCloses = 0
    /\ request \in {r \in SessionRequests : r.Subprotocol = TextSubprotocol}
    /\ wConn = confirmProxyData(AcceptedConn(request), request.RemoteAddr,
                                request.XForwardedFor, request.XForwardedProto,
                                config)
    /\ listeners = InitialListeners(config).listeners
    /\ created = InitialListeners(config).created
    /\ rehashMutex = Free
    /\ rehash = [g \in RehashTasks |-> [pc |-> "idle", config |-> NoConfig]]

TranscoderNext ==
    \/ TranscodeIdentity
    \/ ReplacementBegin
    \/ ReplacementStep
    \/ ReplacementReturn
    \/ TranscodeChardet
    \/ TranscodeEncodingList

TranscoderSpec == TranscoderInit /\ [][TranscoderNext]_vars

---------------------------------------------------------------------------
(* The listener on its own: one request of every kind, under every         *)
(* snapshot that differs in what the handler and the dialer read, from the *)
(* upgrade to the start of the forwarders.                                 *)

\* Origin headers: none, a blank one, "a", " a ", "b", "ab"
OriginHeaders == {<<>>, <<32>>, <<97>>, <<32, 97, 32>>, <<98>>, <<97, 98>>}
\* allowed-origins: none, ["a"], ["b", "a*"]
OriginLists == {<<>>, <<<<97>>>>, <<<<98>>, <<97, STAR>>>>}

\* the upstream and the lookup of hostnames: no WEBIRC; WEBIRC with the
\* password "P"; WEBIRC with the password "*" and lookups
UpstreamSettings ==
    {[Enabled |-> FALSE, Password |-> <<>>, Lookup |-> FALSE],
      [Enabled |-> TRUE, Password |-> DefaultPassword, Lookup |-> FALSE],
      [Enabled |-> TRUE, Password |-> <<STAR>>, Lookup |-> TRUE]}

ListenerConfigs ==
    {[ReplacementConfig EXCEPT
         !.allowedOriginRegexps = o,
         !.LookupHostnames = u.Lookup,
         !.Upstreams = <<[Enabled |-> u.Enabled, Password |-> u.Password]>>] :
        o \in OriginLists, u \in UpstreamSettings}

\* X-Forwarded-For: absent, the client, the client through the trusted
\* proxy, something that is no address, an IPv6 client
ForwardedFors ==
    {<<>>, <<ClientIP>>, <<ClientIP, TrustedPeer>>, <<NotAnIP>>, <<LoopbackV6>>}

Requests ==
    {MakeRequest(peer, proxyIP, xff, xfp, origin, secure, listener, subprotocol) :
        peer \in {TrustedPeer, UntrustedPeer},
        proxyIP \in {NilIP, ClientIP},
        xff \in ForwardedFors,
        xfp \in {"", "https", "http"},
        origin \in OriginHeaders,
        secure \in BOOLEAN,
        listener \in {PlainListener, TLSListener, TorListener},
        subprotocol \in {"", BinarySubprotocol}}

ListenerInit ==
    /\ config \in ListenerConfigs
    /\ phase = "listening"
    /\ sessCfg = NoConfig
    /\ dials = <<>>
    /\ messageType = TextMessage
    /\ readLimit = 0
    /\ rMaxLineLen = 0
    /\ rMaxBuffer = 0
    /\ wsBufferLen = 0
    /\ wsBuffer = <<>>
    /\ wsIn = <<>>
    /\ uIn = <<>>
    /\ pc = [to |-> "idle", from |-> "idle"]
    /\ toLine = 0
    /\ uLog = <<>>
    /\ wsMessage = 0
    /\ toErr = "nil"
    /\ line = NoLine
    /\ wLog = <<>>
    /\ XcodeIdle
    /\ once = "idle"
    /\ webCloses = 0
    /\ uCloses = 0
    /\ request \in Requests
    /\ wConn = AcceptedConn(request)
    /\ listeners = InitialListeners(config).listeners
    /\ created = InitialListeners(config).created
    /\ rehashMutex = Free
    /\ rehash = [g \in RehashTasks |-> [pc |-> "idle", config |-> NoConfig]]

ListenerNext ==
    \/ HandleUpgradeError
    \/ HandleNonProxied
    \/ Handle
    \/ RunReverseProxyConnDialError
    \/ RunReverseProxyConn

ListenerSpec == ListenerInit /\ [][ListenerNext]_vars

---------------------------------------------------------------------------
(* Properties of the listener, checked under ListenerSpec.                 *)

\* the handler has upgraded the request and resolved its proxy data
Upgraded == phase \in {"upgraded", "dialfailed", "bridged"}

\* C11: for a connection without a PROXY-header address whose request
\* carries X-Forwarded-For: a, a not the peer's address, the address the
\* session is for is the peer's when the peer is not in proxy-allowed-from,
\* and a when it is.
C11_ForwardedForTrust ==
    (/\ Upgraded
     /\ request.ProxyHeaderIP = NilIP
     /\ Len(request.XForwardedFor) = 1
     /\ request.XForwardedFor[1] \in IPs \ {request.RemoteAddr})
    => EffectiveIP(wConn) =
          IF request.RemoteAddr \in sessCfg.proxyAllowedFromNets
          THEN request.XForwardedFor[1]
          ELSE request.RemoteAddr

\* a session was bridged for the client a trusted proxy named, and one for
\* the peer itself is excluded: the WEBIRC line for the client was written
C11_Witness ==
    /\ Bridged
    /\ request.RemoteAddr = TrustedPeer
    /\ request.ProxyHeaderIP = NilIP
    /\ request.XForwardedFor = <<ClientIP>>
    /\ EffectiveIP(wConn) = ClientIP
    /\ Len(uLog) = 1

\* C12: a request passes the origin check iff the allow-list is empty or
\* its trimmed Origin is not empty and matches a glob of the list; for a
\* request that fails it nothing is dialed, written or started.
C12_OriginGating ==
    LET OriginAllowed(cfg) ==
            \/ Len(cfg.allowedOriginRegexps) = 0
            \/ /\ TrimSpace(request.Origin) # <<>>
               /\ \E i \in 1..Len(cfg.allowedOriginRegexps) :
                     GlobMatch(cfg.allowedOriginRegexps[i],
                               TrimSpace(request.Origin))
    IN  /\ Upgraded => OriginAllowed(sessCfg)
        /\ (phase = "listening" /\ OriginAllowed(config)) => ENABLED Handle
        /\ ~OriginAllowed(config)
              => /\ phase \in {"listening", "refused"}
                 /\ pc = [to |-> "idle", from |-> "idle"]
                 /\ uLog = <<>>
                 /\ webCloses = 0

\* a request with the Origin " a " was upgraded under the list ["b", "a*"]
C12_Witness ==
    /\ Bridged
    /\ request.Origin = <<32, 97, 32>>
    /\ Len(sessCfg.allowedOriginRegexps) = 2

\* C17: with WEBIRC enabled and hostname lookups off, the line written to
\* the upstream is exactly WEBIRC <password> <gateway-name> <ip> <ip>
\* :<flags> and CRLF, flags being "secure" iff the session is secure, and
\* it is at most 512 bytes long.
C17_WebircLine ==
    (/\ Bridged
     /\ ~sessCfg.LookupHostnames
     /\ Len(uLog) > 0)
    => LET ip == IPText(EffectiveIP(wConn))
       IN  /\ uLog[1].kind = "WEBIRC"
           /\ uLog[1].bytes =
                 WebircCommand \o <<SP>> \o sessCfg.Upstreams[1].Password
                     \o <<SP>> \o sessCfg.GatewayName
                     \o <<SP>> \o ip \o <<SP>> \o ip \o <<SP, COLON>>
                     \o (IF wConn.Secure THEN SecureFlag ELSE <<>>)
                     \o <<13, 10>>
           /\ Len(uLog[1].bytes) <= DefaultMaxLineLen

\* C21: after the resolution the connection is secure iff its listener
\* terminates TLS or is a tor listener, or the peer is in
\* proxy-allowed-from and X-Forwarded-Proto is exactly "https"; the flag
\* the connection was accepted with plays no part.
C21_SecureFlag ==
    Upgraded =>
        (wConn.Secure <=>
            \/ request.Listener.TLS
            \/ request.Listener.Tor
            \/ /\ request.RemoteAddr \in sessCfg.proxyAllowedFromNets
               /\ request.XForwardedProto = "https")

\* a connection accepted with the flag set, on a plain listener, from a
\* peer that is not trusted and says "https", was bridged as not secure
C21_Witness ==
    /\ Bridged
    /\ request.Secure
    /\ request.Listener = PlainListener
    /\ request.RemoteAddr = UntrustedPeer
    /\ request.XForwardedProto = "https"
    /\ ~wConn.Secure

\* C22: the address a PROXY header gave is kept iff the peer is in
\* proxy-allowed-from; otherwise it is cleared and the session is for the
\* peer's address.  Whatever X-Forwarded-For says changes nothing of this.
C22_ProxyHeaderTrust ==
    (Upgraded /\ request.ProxyHeaderIP # NilIP)
    => /\ wConn.ProxiedIP =
             IF request.RemoteAddr \in sessCfg.proxyAllowedFromNets
             THEN request.ProxyHeaderIP ELSE NilIP
       /\ EffectiveIP(wConn) =
             IF request.RemoteAddr \in sessCfg.proxyAllowedFromNets
             THEN request.ProxyHeaderIP ELSE request.RemoteAddr

\* a peer that is not trusted sent a PROXY header and an X-Forwarded-For
\* naming two different clients, and the session is for the peer itself
C22_Witness ==
    /\ Bridged
    /\ request.RemoteAddr = UntrustedPeer
    /\ request.ProxyHeaderIP = ClientIP
    /\ request.XForwardedFor = <<LoopbackV6>>
    /\ wConn.ProxiedIP = NilIP
    /\ EffectiveIP(wConn) = UntrustedPeer

---------------------------------------------------------------------------
(* The server under reloads: rehash step by step, next to one connection   *)
(* that is upgraded and bridged and whose upstream sends a line.           *)

ServerInit ==
    /\ config \in {LoadConfig(f).config : f \in ValidFiles}
    /\ phase = "listening"
    /\ sessCfg = NoConfig
    /\ dials = <<>>
    /\ messageType = TextMessage
    /\ readLimit = 0
    /\ rMaxLineLen = 0
    /\ rMaxBuffer = 0
    /\ wsBufferLen = 0
    /\ wsBuffer = <<>>
    /\ wsIn = <<>>
    /\ uIn = <<>>
    /\ pc = [to |-> "idle", from |-> "idle"]
    /\ toLine = 0
    /\ uLog = <<>>
    /\ wsMessage = 0
    /\ toErr = "nil"
    /\ line = NoLine
    /\ wLog = <<>>
    /\ XcodeIdle
    /\ once = "idle"
    /\ webCloses = 0
    /\ uCloses = 0
    /\ request \in SessionRequests
    /\ wConn = AcceptedConn(request)
    /\ listeners = InitialListeners(config).listeners
    /\ created = InitialListeners(config).created
    /\ rehashMutex = Free
    /\ rehash = [g \in RehashTasks |-> [pc |-> "idle", config |-> NoConfig]]

ServerNext ==
    \/ RehashLock
    \/ \E file \in ConfigFiles : RehashLoadConfig(file)
    \/ RehashSetConfig
    \/ RehashSetupListeners
    \/ RehashUnlock
    \/ Handle
    \/ RunReverseProxyConn
    \/ \E l \in SessionLines : Len(wLog) < MaxLines /\ FromReadLine(l)
    \/ TranscodeIdentity
    \/ ReplacementBegin
    \/ ReplacementStep
    \/ ReplacementReturn
    \/ TranscodeChardet
    \/ TranscodeEncodingList
    \/ FromWrite

ServerSpec == ServerInit /\ [][ServerNext]_vars

---------------------------------------------------------------------------
(* Reloads alone, with every max-line-len a file may set.                  *)

\* the values of max-line-len in the files: negative, unset, around the
\* default, and the largest ones an int holds
LoaderLineLens ==
    {-1, 0, DefaultMaxLineLen - 1, DefaultMaxLineLen, DefaultMaxLineLen + 1,
     MaxInt - MaxlenClientTagData - 1024 - 1,
     MaxInt - MaxlenClientTagData - 1024,
     MaxInt - MaxlenClientTagData - 1024 + 1,
     MaxInt - 1024,
     MaxInt}

LoaderFiles ==
    {ConfigFile(RawConfig(ReplacementConfig, m, DefaultPassword)) :
        m \in LoaderLineLens}
      \cup InvalidFiles

LoaderInit ==
    /\ config = LoadConfig(ConfigFile(RawConfig(ReplacementConfig, 0, <<>>))).config
    /\ phase = "listening"
    /\ sessCfg = NoConfig
    /\ dials = <<>>
    /\ messageType = TextMessage
    /\ readLimit = 0
    /\ rMaxLineLen = 0
    /\ rMaxBuffer = 0
    /\ wsBufferLen = 0
    /\ wsBuffer = <<>>
    /\ wsIn = <<>>
    /\ uIn = <<>>
    /\ pc = [to |-> "idle", from |-> "idle"]
    /\ toLine = 0
    /\ uLog = <<>>
    /\ wsMessage = 0
    /\ toErr = "nil"
    /\ line = NoLine
    /\ wLog = <<>>
    /\ XcodeIdle
    /\ once = "idle"
    /\ webCloses = 0
    /\ uCloses = 0
    /\ request \in SessionRequests
    /\ wConn = AcceptedConn(request)
    /\ listeners = InitialListeners(config).listeners
    /\ created = InitialListeners(config).created
    /\ rehashMutex = Free
    /\ rehash = [g \in RehashTasks |-> [pc |-> "idle", config |-> NoConfig]]

LoaderNext ==
    \/ RehashLock
    \/ \E file \in LoaderFiles : RehashLoadConfig(file)
    \/ RehashSetConfig
    \/ RehashSetupListeners
    \/ RehashUnlock

LoaderSpec == LoaderInit /\ [][LoaderNext]_vars

\* a request on a plaintext listener that is no tor listener, from a peer
\* that is not in proxy-allowed-from, on a connection without a PROXY
\* header, has been upgraded
UntrustedPlain ==
    /\ Upgraded
    /\ request.RemoteAddr \notin sessCfg.proxyAllowedFromNets
    /\ ~request.Listener.TLS
    /\ ~request.Listener.Tor
    /\ request.ProxyHeaderIP = NilIP

\* C38: for such a request the resolved address is the peer's and the
\* session is not secure; the resolved connection is the one any other
\* X-Forwarded-For and X-Forwarded-Proto would have given; and the WEBIRC
\* line written is made of the snapshot, the peer's address and what the
\* lookup of that address returned, so that two such requests that differ
\* in these headers alone are resolved and announced alike.
C38_HeaderNonInterference ==
    UntrustedPlain =>
        /\ EffectiveIP(wConn) = request.RemoteAddr
        /\ ~wConn.Secure
        /\ \A xff \in ForwardedFors, xfp \in {"", "https", "http"} :
              wConn = confirmProxyData(AcceptedConn(request), request.RemoteAddr,
                                       xff, xfp, sessCfg)
        /\ (Bridged /\ Len(uLog) > 0) =>
              LET ip == IPText(request.RemoteAddr)
              IN  /\ uLog[1].kind = "WEBIRC"
                  /\ \E h \in Hostnames(sessCfg, ip) :
                        uLog[1].bytes =
                            WebircCommand \o <<SP>> \o sessCfg.Upstreams[1].Password
                                \o <<SP>> \o sessCfg.GatewayName
                                \o <<SP>> \o h \o <<SP>> \o ip
                                \o <<SP, COLON, 13, 10>>

\* a peer that is not trusted named a client and said "https" on a plain
\* listener: the session was bridged for the peer, not secure, and WEBIRC
\* was written
C38_Witness ==
    /\ Bridged
    /\ UntrustedPlain
    /\ request.RemoteAddr = UntrustedPeer
    /\ request.XForwardedFor = <<ClientIP>>
    /\ request.XForwardedProto = "https"
    /\ EffectiveIP(wConn) = UntrustedPeer
    /\ ~wConn.Secure
    /\ Len(uLog) = 1
    /\ sessCfg.LookupHostnames

---------------------------------------------------------------------------
(* Properties of reloads, checked under ServerSpec.                        *)

\* C13: whatever the interleaving of readers with reloads, a reader of
\* Config() gets one snapshot, the one published at that moment, never nil;
\* every published snapshot had all its derived fields set when it was
\* published; and the published snapshot changes only by SetConfig storing
\* another one, never by a write to its fields.
C13_ReadersSeeCompleteSnapshots ==
    [][LET Complete(c) ==
               /\ c # NoConfig
               /\ c.MaxLineLen >= DefaultMaxLineLen
               /\ c.maxReadQBytes = MaxlenClientTagData + c.MaxLineLen + 1024
               /\ \A i \in 1..Len(c.Upstreams) :
                     c.Upstreams[i].Enabled => Len(c.Upstreams[i].Password) > 0
               /\ ~(c.EnableChardet /\ Len(c.encodings) # 0)
       IN  /\ Complete(config)
           /\ Complete(config')
           /\ sessCfg' # sessCfg => (sessCfg' = config /\ Complete(sessCfg'))
           /\ (usedCfg' # usedCfg /\ usedCfg' # NoConfig)
                 => (usedCfg' = config /\ Complete(usedCfg'))
           /\ config' # config =>
                 \E g \in RehashTasks :
                     /\ rehash[g].pc = "apply"
                     /\ config' = rehash[g].config]_vars

\* a line was transcoded under a snapshot a rehash had just published and
\* was still setting the listeners up for, in a session accepted under
\* another snapshot
C13_Witness ==
    /\ Bridged
    /\ usedCfg # NoConfig
    /\ usedCfg # sessCfg
    /\ usedCfg = config
    /\ \E g \in RehashTasks : rehash[g].pc = "listeners"

\* C14: a rehash whose file does not parse or validate publishes nothing
\* and touches no listener: from the step that takes the mutex to the step
\* that releases it after the error, no step changes the snapshot Config()
\* returns or the registered listeners.
C14_FailedLoadChangesNothing ==
    [][(\E g \in RehashTasks :
          \/ rehash[g].pc = "idle" /\ rehash'[g].pc = "load"
          \/ rehash[g].pc = "load" /\ rehash'[g].pc # "apply"
          \/ rehash[g].pc = "failed")
       => /\ config' = config
          /\ listeners' = listeners]_vars

\* a rehash has found that its file does not load and is about to return
\* the error, after another one had created a listener
C14_Witness ==
    /\ rehash[1].pc = "done"
    /\ rehash[2].pc = "failed"
    /\ created > 1

\* C15: no step of a rehash closes a connection of the session, stops a
\* forwarder or changes anything else of the session, whether or not the
\* listener of the session stays configured.
C15_ReloadLeavesSessionAlone ==
    [][(rehash' # rehash \/ config' # config \/ listeners' # listeners)
       => UNCHANGED <<pc, closeVars, sessVars, wConn, uLog, wLog, line>>]_vars

\* two rehashes went by a bridged session and left its listener registered;
\* the session has since transcoded a line of the upstream under the
\* snapshot they published and is about to send it to the client, nothing
\* of it closed
C15_Witness ==
    /\ Bridged
    /\ \A g \in RehashTasks : rehash[g].pc = "done"
    /\ Addr1 \in DOMAIN listeners
    /\ listeners[Addr1].gen = 1
    /\ config # sessCfg
    /\ usedCfg = config
    /\ pc.from = "write"
    /\ ENABLED FromWrite
    /\ webCloses = 0
    /\ uCloses = 0

\* C31: when setupListeners returns no error, the registered addresses are
\* the addresses of the snapshot just published; an address that was
\* registered and is still configured keeps its listener, which now
\* serves with the new configuration; an address that was not registered
\* has a listener made by this call; an address no longer configured has
\* none.
C31_ListenersFollowSnapshot ==
    [][\A g \in RehashTasks :
          (rehash[g].pc = "listeners" /\ rehash'[g].pc = "unlock")
          => LET cfg == rehash[g].config
                 configured == DOMAIN cfg.trueListeners
             IN  /\ cfg = config
                 /\ DOMAIN listeners' = configured
                 /\ \A a \in configured :
                       /\ listeners'[a].conf = cfg.trueListeners[a]
                       /\ IF a \in DOMAIN listeners
                          THEN listeners'[a].gen = listeners[a].gen
                          ELSE /\ listeners'[a].gen > created
                               /\ listeners'[a].gen = created']_vars

\* a reload has ended and a second one has set the listeners up without
\* an error: one listener is left, on the second address and made by a
\* reload, and the first address has none
C31_Witness ==
    /\ \E g, h \in RehashTasks :
          rehash[g].pc = "done" /\ rehash[h].pc = "unlock"
    /\ DOMAIN listeners = {Addr2}
    /\ DOMAIN config.trueListeners = {Addr2}
    /\ listeners[Addr2].gen = 2
    /\ created = 2

\* a rehash task that is between Lock and Unlock
InRehash(g) == rehash[g].pc \notin {"idle", "done"}

\* C32: at most one rehash task is between Lock and Unlock, and it is the
\* one that holds the mutex; only that task stores a snapshot or changes
\* the map of listeners; and whenever no task holds the mutex, every
\* registered listener is on an address of the published snapshot and
\* serves with the configuration that snapshot gives the address, so that
\* snapshot and listeners come from the same reload.
C32_ReloadsExclusive ==
    [][/\ \A g, h \in RehashTasks : (InRehash(g) /\ InRehash(h)) => g = h
       /\ \A g \in RehashTasks : InRehash(g) => rehashMutex = g
       /\ (config' # config \/ listeners' # listeners)
             => \E g \in RehashTasks :
                   /\ rehashMutex = g
                   /\ rehashMutex' = g
                   /\ rehash'[g].pc # rehash[g].pc
                   /\ \A h \in RehashTasks \ {g} : rehash'[h] = rehash[h]
       /\ rehashMutex = Free
             => /\ DOMAIN listeners \subseteq DOMAIN config.trueListeners
                /\ \A a \in DOMAIN listeners :
                      listeners[a].conf = config.trueListeners[a]
       /\ rehashMutex' = Free
             => /\ DOMAIN listeners' \subseteq DOMAIN config'.trueListeners
                /\ \A a \in DOMAIN listeners' :
                      listeners'[a].conf = config'.trueListeners[a]
                /\ \A g \in RehashTasks : ~InRehash(g)']_vars

\* every rehash task has run, one after the other; the second left both
\* addresses registered, the first one now with TLS
C32_Witness ==
    /\ \A g \in RehashTasks : rehash[g].pc = "done"
    /\ rehashMutex = Free
    /\ created > 1
    /\ DOMAIN listeners = {Addr1, Addr2}
    /\ listeners[Addr1].conf = TLSListener
    /\ config.trueListeners[Addr1] = TLSListener

\* C33: a reload attempt that ends with an error, whether LoadConfig or
\* setupListeners returned it, has changed nothing: the step that ends in
\* the error leaves the listeners as they were, and an attempt that stores
\* a snapshot other than the published one does not end in an error.
C33_FailedReloadChangesNothing ==
    /\ [][\A g \in RehashTasks :
             (/\ rehash'[g].pc \in {"failed", "applyFailed"}
              /\ rehash[g].pc \notin {"failed", "applyFailed"})
             => /\ listeners' = listeners
                /\ config' = config]_vars
    /\ \A g \in RehashTasks :
          []((rehash[g].pc = "apply" /\ rehash[g].config # config)
                => [](rehash[g].pc # "applyFailed"))

---------------------------------------------------------------------------
(* Properties of configuration loading, checked under LoaderSpec.          *)

\* C34: every snapshot LoadConfig returns, and so every snapshot that is
\* published, has max-line-len >= 512 and a max-readq-bytes that is
\* greater than the initial buffer size and than max-line-len, and that
\* is max-line-len plus the tag-data budget plus 1024.
C34_ReadqAboveLineLen ==
    \A c \in ({config} \cup {rehash[g].config : g \in RehashTasks}) \ {NoConfig} :
        /\ c.MaxLineLen >= DefaultMaxLineLen
        /\ c.maxReadQBytes > initialBufferSize
        /\ c.maxReadQBytes > c.MaxLineLen
        /\ c.maxReadQBytes - c.MaxLineLen = MaxlenClientTagData + 1024

---------------------------------------------------------------------------
(* Properties of transcodeToUTF8, checked under TranscoderSpec.            *)

\* transcodeToUTF8 has returned
Transcoded == pc.from = "write"

\* C1: every text frame is valid UTF-8: whatever the line and the strategy,
\* what transcodeToUTF8 returns is a valid UTF-8 byte sequence.
C1_OutputIsValidUTF8 ==
    Transcoded /\ messageType = TextMessage => ValidUTF8(result)

\* C2: for every line, every max-line-len and every strategy, the output of
\* transcodeToUTF8 and its CRLF fit in max-line-len: len(output) + 2 <= L.
C2_OutputFitsMaxLineLen ==
    Transcoded => Len(result) + 2 <= rMaxLineLen

\* C7: on a line that is valid UTF-8, transcodeToUTF8 returns the line
\* itself, the same bytes in the same buffer, and does not load the
\* configuration, whatever the transcoding policy is.
C7_IdentityOnValidUTF8 ==
    Transcoded /\ ValidUTF8(line) =>
        /\ result = line
        /\ alias
        /\ usedCfg = NoConfig

\* a valid line with a character outside ASCII went through transcodeToUTF8
\* under a configuration that lists encodings
C7_Witness ==
    /\ Transcoded
    /\ ValidUTF8(line)
    /\ \E i \in 1..Len(line) : line[i] >= RuneSelf
    /\ Strategy(config) = "encodings"
    /\ result = line

C9_TagsVerbatimOrWarning ==
    (/\ Transcoded
     /\ usedCfg # NoConfig
     /\ Strategy(usedCfg) = "replacement"
     /\ line[1] = AT)
    => IF IndexByte(line, SP) # 0
       THEN Take(result, IndexByte(line, SP)) = Take(line, IndexByte(line, SP))
       ELSE result = invalidMessageWarning

\* a tags segment holding a non-UTF-8 byte was copied in front of a body
\* whose invalid byte was replaced
C9_Witness ==
    /\ Transcoded
    /\ Strategy(config) = "replacement"
    /\ line = <<64, 239, 32, 239>>
    /\ result = <<64, 239, 32>> \o ReplacementBytes

\* the encodings of the list, in order, whose decoder reports no error on
\* the parameter
Decoding(param, encodings) ==
    SelectSeq(encodings, LAMBDA e : ~Decode(e, param).err)

\* what the fixed-list policy has to make of a parameter: the output of the
\* first encoding that decodes it, the lossy reinterpretation if none does
ExpectedParam(param, encodings) ==
    IF Decoding(param, encodings) = <<>> THEN decodeAsUtf8(param)
    ELSE Decode(Head(Decoding(param, encodings)), param).s

\* the output is a line of the message m with every parameter decoded as
\* the fixed-list policy says
ReassembledFrom(m, o, encodings) ==
    /\ o.err = ""
    /\ o.msg.tags = m.tags
    /\ o.msg.Command = m.Command
    /\ Len(o.msg.Params) = Len(m.Params)
    /\ \A i \in 1..Len(m.Params) :
          o.msg.Params[i] = ExpectedParam(m.Params[i], encodings)

\* the line went through the fixed-list policy and parses as a message
FixedListParsed ==
    /\ Transcoded
    /\ usedCfg # NoConfig
    /\ Strategy(usedCfg) = "encodings"
    /\ ParseLine(line).err = ""

TranscodedBody(m, encodings) ==
    SerializeBody([m EXCEPT
        !.Prefix = IF ValidUTF8(m.Prefix) THEN m.Prefix ELSE decodeAsUtf8(m.Prefix),
        !.Params = [i \in 1..Len(m.Params) |-> ExpectedParam(m.Params[i], encodings)]])

ReplacementTagsLen ==
    IF line[1] = AT THEN IndexByte(line, SP) ELSE 0

\* C19: under the replacement policy, a step of the loop on a well-formed
\* UTF-8 code point, whatever its value (a correctly encoded U+FFFD
\* included), copies the bytes of the code point to the output as they are
\* and consumes exactly them (or stops at the length bound).
C19_WellFormedCopiedVerbatim ==
    [][(/\ pc.from = "loop"
        /\ Len(rest) # 0
        /\ SeqLenAt(rest, 1) > 0
        /\ <<pc.from, rest, out>>' # <<pc.from, rest, out>>)
       => \/ /\ pc'.from = "write"
             /\ result' = out
          \/ /\ pc'.from = "loop"
             /\ out' = out \o Take(rest, SeqLenAt(rest, 1))
             /\ rest' = Drop(rest, SeqLenAt(rest, 1))]_vars

\* C20: under the replacement policy the body bytes written after the tags
\* segment never exceed max-line-len - 2, in the loop and in the result, and
\* the body returned ends on a code-point boundary.
C20_BodyWithinMaxLineLen ==
    /\ (pc.from = "loop" /\ usedCfg # NoConfig)
          => Len(out) - ReplacementTagsLen <= rMaxLineLen - 2
    /\ (/\ Transcoded
        /\ usedCfg # NoConfig
        /\ Strategy(usedCfg) = "replacement"
        /\ result # invalidMessageWarning)
          => /\ Len(result) - ReplacementTagsLen <= rMaxLineLen - 2
             /\ ValidUTF8(Drop(result, ReplacementTagsLen))

---------------------------------------------------------------------------
(* Properties of the bridge, checked under Spec and FairSpec.              *)

\* the forwarder has left its loop: it is in its deferred Close or has ended
Leaving(f) == pc[f] \in {"close", "realClose", "realClose2", "exited"}
Exited(f) == pc[f] = "exited"

\* C3: a session accepted under snapshot S keeps S's max-line-len, S's
\* max-readq-bytes and S's transcoding policy for every line it forwards,
\* whatever snapshots reloads publish in the meantime.
C3_SessionKeepsSnapshot ==
    Bridged =>
        /\ rMaxLineLen = sessCfg.MaxLineLen
        /\ rMaxBuffer = sessCfg.maxReadQBytes
        /\ readLimit = sessCfg.maxReadQBytes
        /\ usedCfg # NoConfig =>
              /\ usedCfg.EnableChardet = sessCfg.EnableChardet
              /\ usedCfg.encodings = sessCfg.encodings

\* C4: whatever the interleaving of the Close() calls of the two forwarders,
\* neither connection of a bridge is closed twice, and both have been closed
\* once when a Close() call has returned.
C4_EachEndpointClosedOnce ==
    Bridged =>
        /\ webCloses <= 1
        /\ uCloses <= 1
        /\ (Exited("to") \/ Exited("from")) => webCloses = 1 /\ uCloses = 1

\* both forwarders have called Close() and returned from it
C4_Witness ==
    /\ Bridged
    /\ Exited("to")
    /\ Exited("from")
    /\ webCloses = 1
    /\ uCloses = 1

\* C5: when a forwarder has ended, whatever made it end, both connections
\* are closed; and, a read or write on a closed connection failing, the
\* other forwarder ends as well.
C5_NeitherDirectionOutlivesTheOther ==
    /\ []((Exited("to") \/ Exited("from")) => WebClosed /\ UpstreamClosed)
    /\ (Exited("to") ~> Exited("from"))
    /\ (Exited("from") ~> Exited("to"))

\* the forwarder from the upstream ended on a recovered panic, the other one
\* after it
C5_Witness ==
    /\ Exited("from")
    /\ Exited("to")
    /\ usedCfg # NoConfig
    /\ Strategy(usedCfg) = "chardet"
    /\ result = <<>>
    /\ toErr = "read error"

\* C6: a message of max-readq-bytes + 1 bytes is not written to the
\* upstream: reading it fails with ErrReadLimit, the forwarder leaves its
\* loop, and when it has ended both connections are closed.
C6_ReadLimitEnforced ==
    (Bridged /\ wsMessage = sessCfg.maxReadQBytes + 1) =>
        /\ toErr = "ErrReadLimit"
        /\ \A i \in 1..Len(UpstreamMessages) : UpstreamMessages[i].size # wsMessage
        /\ Leaving("to")
        /\ Exited("to") => WebClosed /\ UpstreamClosed

\* the session has ended on a message of max-readq-bytes + 1 bytes
C6_Witness ==
    /\ Bridged
    /\ wsMessage = sessCfg.maxReadQBytes + 1
    /\ Exited("to")
    /\ WebClosed
    /\ UpstreamClosed

\* C18: readWSMessage on a message whose length is the length of the buffer
\* at the call (1024 before the buffer has grown, max-readq-bytes after)
\* returns the whole message and no error.
C18_ExactFitSucceeds ==
    [][(/\ pc.to = "read"
        /\ pc'.to # "read"
        /\ toErr' # "read error"
        /\ wsMessage' = wsBufferLen)
       => /\ toErr' = "nil"
          /\ toLine' = wsMessage']_vars

\* the number of bytes of a buffer
RECURSIVE RunsLen(_)
RunsLen(b) ==
    IF Len(b) = 0 THEN 0 ELSE (b[1].to - b[1].from + 1) + RunsLen(Tail(b))

\* C36: in a session the buffer of the frame reader is 1024 or
\* max-readq-bytes long and its length changes only from the first to the
\* second; readWSMessage on a message shorter than max-readq-bytes returns
\* no error and the slice of the buffer that holds the bytes of that
\* message, from its first to its last, and nothing else.
C36_BufferAndSlice ==
    [][Bridged =>
          /\ rMaxBuffer > initialBufferSize
          /\ wsBufferLen \in {initialBufferSize, rMaxBuffer}
          /\ wsBufferLen' \in {initialBufferSize, rMaxBuffer}
          /\ RunsLen(wsBuffer') = wsBufferLen'
          /\ wsBufferLen' # wsBufferLen
                => wsBufferLen = initialBufferSize /\ wsBufferLen' = rMaxBuffer
          /\ (wsIn' # wsIn /\ wsMessage' < rMaxBuffer)
                => /\ toErr' = "nil"
                   /\ toLine' = wsMessage'
                   /\ TakeRuns(wsBuffer', toLine')
                         = Run(Len(wsIn'), 1, wsMessage')]_vars

\* a message one byte shorter than max-readq-bytes made the buffer grow,
\* and a message of one byte was read into the grown buffer after it
C36_Witness ==
    /\ Bridged
    /\ wsIn = <<rMaxBuffer - 1, 1>>
    /\ wsBufferLen = rMaxBuffer
    /\ pc.to = "write"
    /\ toLine = 1
    /\ wsBuffer = <<[msg |-> 2, from |-> 1, to |-> 1],
                    [msg |-> 1, from |-> 2, to |-> rMaxBuffer - 1],
                    [msg |-> 0, from |-> rMaxBuffer, to |-> rMaxBuffer]>>

---------------------------------------------------------------------------
(* Properties of the data of one session, checked under BridgeSpec.        *)

\* the upstream RunReverseProxyConn picked and dialed
Picked == sessCfg.Upstreams[dials[1]]

C24_WebircFailureKeepsSession ==
    [][(phase = "upgraded" /\ phase' # "dialfailed")
       => /\ phase' = "bridged"
          /\ pc' = [to |-> "read", from |-> "read"]
          /\ UNCHANGED closeVars]_vars

\* the WEBIRC line for the upstream could not be serialized, and the
\* session has forwarded a message of the client and a line of the
\* upstream with nothing closed
C24_Witness ==
    /\ Bridged
    /\ Picked.Enabled
    /\ Picked.Password = <<80, SP, 80>>
    /\ Len(uLog) > 0
    /\ uLog[1].kind = "message"
    /\ Len(wLog) > 0
    /\ webCloses = 0
    /\ uCloses = 0

\* C25: a session dials once, an upstream of the list of its snapshot;
\* when the dial fails the websocket connection is closed, and no
\* forwarder is started, nothing is written to an upstream and nothing
\* else is dialed.
C25_OneUpstreamOneDial ==
    /\ Len(dials) <= 1
    /\ Len(dials) = 1 <=> phase \in {"dialfailed", "bridged"}
    /\ \A i \in 1..Len(dials) : dials[i] \in 1..Len(sessCfg.Upstreams)
    /\ phase = "dialfailed"
          => /\ webCloses = 1
             /\ uCloses = 0
             /\ pc = [to |-> "idle", from |-> "idle"]
             /\ uLog = <<>>
             /\ wLog = <<>>

\* the dial of the second of two upstreams has failed
C25_Witness ==
    /\ phase = "dialfailed"
    /\ Len(sessCfg.Upstreams) = 2
    /\ dials = <<2>>
    /\ webCloses = 1

\* C26: the message type of a session is binary iff the subprotocol
\* negotiated at the upgrade is binary.ircv3.net and stays what it is; in
\* a binary session every frame is a binary frame whose payload is the
\* line as ReadLine returned it, in a text session a text frame whose
\* payload is what transcodeToUTF8 returned for the line.
C26_FrameFollowsSubprotocol ==
    [][/\ phase = "bridged"
             => /\ messageType' = messageType
                /\ messageType = IF request.Subprotocol = BinarySubprotocol
                                 THEN BinaryMessage ELSE TextMessage
       /\ wLog' # wLog
             => /\ Len(wLog') = Len(wLog) + 1
                /\ Take(wLog', Len(wLog)) = wLog
                /\ LET f == wLog'[Len(wLog')]
                   IN  /\ f.type = messageType
                       /\ f.of = line
                       /\ messageType = BinaryMessage => f.payload = line
                       /\ (messageType = TextMessage /\ ValidUTF8(line))
                             => f.payload = line
                       /\ (messageType = TextMessage /\ ~ValidUTF8(line))
                             => /\ usedCfg # NoConfig
                                /\ f.payload = result
                                /\ Strategy(usedCfg) = "encodings"
                                      => f.payload = decodeViaParamTranscoding(
                                             line, rMaxLineLen,
                                             EncodingListClosure(usedCfg.encodings))
                                /\ Strategy(usedCfg) = "chardet"
                                      => \E detect \in [DetectedParams(line)
                                                           -> DetectOutcomes] :
                                            f.payload = decodeViaParamTranscoding(
                                                line, rMaxLineLen,
                                                ChardetClosure(detect))]_vars

\* a binary session has sent two lines that are not UTF-8 as they came,
\* under a snapshot that would transcode them
C26_Witness ==
    /\ phase = "bridged"
    /\ request.Subprotocol = BinarySubprotocol
    /\ Strategy(sessCfg) = "encodings"
    /\ Len(wLog) = 2
    /\ wLog[1] = [type |-> BinaryMessage, payload |-> <<65, SP, 239>>,
                  of |-> <<65, SP, 239>>]
    /\ wLog[2] = [type |-> BinaryMessage, payload |-> <<239>>, of |-> <<239>>]

\* C27: the j-th message written to the upstream is the j-th message the
\* client sent, byte for byte from its first byte to its last, followed
\* by CRLF in the same write, so that the CRLF of a message comes before
\* every byte of the next one.
C27_MessageThenCRLF ==
    /\ Len(UpstreamMessages) <= Len(wsIn)
    /\ \A j \in 1..Len(UpstreamMessages) :
          /\ UpstreamMessages[j].size = wsIn[j]
          /\ UpstreamMessages[j].buffers = <<Run(j, 1, wsIn[j]), crlf>>

\* a message that needed the larger buffer was written, and after it a
\* shorter one read into the same buffer
C27_Witness ==
    /\ Len(UpstreamMessages) = 2
    /\ wsIn = <<initialBufferSize + 1, 1>>
    /\ UpstreamMessages[1].buffers = <<Run(1, 1, initialBufferSize + 1), crlf>>
    /\ UpstreamMessages[2].buffers = <<Run(2, 1, 1), crlf>>
    /\ wsBuffer[2] = [msg |-> 1, from |-> 2, to |-> initialBufferSize + 1]

\* C28: in each direction what went out is a prefix of what came in, in
\* the same order, one for one: the j-th message written upstream is the
\* j-th client message, the j-th frame is the frame of the j-th upstream
\* line, at most one item is under way in a direction, and none when the
\* forwarder of that direction is about to read.
C28_FIFO ==
    /\ Len(UpstreamMessages) <= Len(wsIn)
    /\ Len(UpstreamMessages) >= Len(wsIn) - 1
    /\ pc.to = "read" => Len(UpstreamMessages) = Len(wsIn)
    /\ \A j \in 1..Len(UpstreamMessages) :
          LET first == UpstreamMessages[j].buffers[1]
          IN  \A i \in 1..Len(first) : first[i].msg = j
    /\ Len(wLog) <= Len(uIn)
    /\ Len(wLog) >= Len(uIn) - 1
    /\ pc.from = "read" => Len(wLog) = Len(uIn)
    /\ \A j \in 1..Len(wLog) : wLog[j].of = uIn[j]

\* two messages and two different lines went through, each direction in
\* the order of arrival
C28_Witness ==
    /\ wsIn = <<initialBufferSize, 1>>
    /\ Len(UpstreamMessages) = 2
    /\ uIn = << <<65, SP, 239>>, <<65>> >>
    /\ Len(wLog) = 2
    /\ wLog[1].of = <<65, SP, 239>>
    /\ wLog[2].of = <<65>>

\* the command of a line as the upstream wrote it: what follows the tags
\* and the prefix, up to the next space
RawCommand(l) ==
    LET l1 == TrimSuffixByte(TrimSuffixByte(l, 10), 13)
        l2 == IF Len(l1) > 0 /\ l1[1] = AT /\ IndexByte(l1, SP) # 0
              THEN trimInitialSpaces(Drop(l1, IndexByte(l1, SP)))
              ELSE trimInitialSpaces(l1)
        l3 == IF Len(l2) > 0 /\ l2[1] = COLON /\ IndexByte(l2, SP) # 0
              THEN trimInitialSpaces(Drop(l2, IndexByte(l2, SP)))
              ELSE l2
    IN  IF IndexByte(l3, SP) = 0 THEN l3 ELSE Take(l3, IndexByte(l3, SP) - 1)

\* the three failures the transcoder is to answer with the warning line:
\* ParseLine returns an error; the command is not UTF-8; LineBytesStrict
\* returns an error other than ErrorBodyTooLong on the message with its
\* parameters transcoded by the encoding list
FailsParse(l) == ParseLine(l).err # ""
FailsCommand(l) == ~FailsParse(l) /\ ~ValidUTF8(RawCommand(l))
FailsReassembly(l, maxLineLen, encodings) ==
    /\ ~FailsParse(l)
    /\ ~FailsCommand(l)
    /\ LET msg == ParseLine(l).msg
           m   == [msg EXCEPT
                     !.Prefix = decodeAsUtf8(msg.Prefix),
                     !.Params = [i \in 1..Len(msg.Params) |->
                                    decodeParamViaEncodingList(msg.Params[i],
                                                               encodings)]]
       IN  LineBytesStrict(m, maxLineLen).err \notin {"", "ErrorBodyTooLong"}

\* C29: when a line handed to decodeViaParamTranscoding does not parse,
\* has a command that is not UTF-8, or cannot be reassembled (for a reason
\* other than body-too-long), the step that sends the frame of that line
\* sends one text frame holding the warning line, closes nothing, and
\* leaves the forwarder at its next read.
C29_FailureContained ==
    [][(/\ wLog' # wLog
        /\ messageType = TextMessage
        /\ ~ValidUTF8(line)
        /\ usedCfg # NoConfig
        /\ \/ /\ Strategy(usedCfg) \in {"chardet", "encodings"}
              /\ FailsParse(line) \/ FailsCommand(line)
           \/ /\ Strategy(usedCfg) = "encodings"
              /\ FailsReassembly(line, rMaxLineLen, usedCfg.encodings))
       => /\ wLog' = Append(wLog, [type    |-> TextMessage,
                                    payload |-> invalidMessageWarning,
                                    of      |-> line])
          /\ UNCHANGED closeVars
          /\ pc'.from = "read"]_vars

\* forwarder f is inside realClose
Closing(f) == pc[f] \in {"realClose", "realClose2"}

---------------------------------------------------------------------------
(* Properties of a panic in a forwarder, checked under FairSpec.           *)

\* C30, as stated: every forwarder that is running has deferred
\* Server.HandlePanic, so that a panic in it would be recovered.
C30_EveryForwarderRecovers ==
    \A f \in Forwarders :
        pc[f] \notin {"idle", "exited"} =>
            \E i \in 1..Len(Deferred[f]) : Deferred[f][i] = "HandlePanic"

\* C30: a panic raised while proxyFromUpstream transcodes a line is
\* recovered by the deferred HandlePanic, which sends nothing, closes
\* nothing itself and leaves the other forwarder, the listeners and the
\* snapshot as they are; the deferred Close runs next, and the forwarder
\* ends with both connections closed.
C30_PanicRecovered ==
    /\ [][(pc.from = "panic" /\ pc'.from # "panic")
            => /\ pc'.from = "close"
               /\ pc'.to = pc.to
               /\ UNCHANGED <<config, srvVars, reqVars, sessVars, toVars,
                              fromVars, closeVars>>]_vars
    /\ (pc.from = "panic"
          ~> (Exited("from") /\ webCloses = 1 /\ uCloses = 1))

\* the forwarder from the upstream has ended on a recovered panic with both
\* connections closed once, and the other forwarder is still at its read
C30_Witness ==
    /\ Exited("from")
    /\ usedCfg # NoConfig
    /\ Strategy(usedCfg) = "chardet"
    /\ result = <<>>
    /\ wLog = <<>>
    /\ webCloses = 1
    /\ uCloses = 1
    /\ pc.to = "read"

---------------------------------------------------------------------------
(* Properties of the lossy reinterpretation, checked under TranscoderSpec. *)

\* a string with each of its bytes taken for the code point of that value
BytesAsCodePoints(p) == Flatten([k \in 1..Len(p) |-> EncodeRune(p[k])])

\* a string with its well-formed sequences kept and each other byte
\* replaced by U+FFFD
RECURSIVE KeepOrReplace(_)
KeepOrReplace(p) ==
    IF Len(p) = 0 THEN <<>>
    ELSE LET ls == {l \in 1..Min(4, Len(p)) : ValidUTF8(Take(p, l))}
         IN  IF ls = {} THEN <<239, 191, 189>> \o KeepOrReplace(Tail(p))
             ELSE LET l == CHOOSE x \in ls : \A y \in ls : x <= y
                  IN  Take(p, l) \o KeepOrReplace(Drop(p, l))

\* a line with a prefix that is not UTF-8 went through
\* decodeViaParamTranscoding and was reassembled
PrefixReinterpreted ==
    /\ Transcoded
    /\ usedCfg # NoConfig
    /\ Strategy(usedCfg) \in {"encodings", "chardet"}
    /\ ParseLine(line).err = ""
    /\ ~ValidUTF8(ParseLine(line).msg.Prefix)
    /\ result # invalidMessageWarning

=============================================================================
